---- MODULE Spec2Model ----
(***************************************************************************)
(* dbkit: Context / ConnectionMediator / Pool.                             *)
(*                                                                         *)
(* Worker threads each own one Context whose mediator is either a          *)
(* SingleConnectionMediator, a PooledConnectionMediator on the one shared  *)
(* Pool, or a PooledConnectionMediator on a DummyPool; a further thread    *)
(* calls Pool.finalise().  The pool's                                      *)
(* critical sections (everything between _cond.acquire() and               *)
(* _cond.release() or _cond.wait()) are the atomic steps; what a thread    *)
(* does on its own Context before or after one of them is folded into the  *)
(* same step.                                                              *)
(***************************************************************************)
EXTENDS Integers, Sequences, FiniteSets, TLC

\* ------------------------------------------------------------------ bounds
MaxConnsBound == 2      \* max_conns ranges over 1..MaxConnsBound
MaxDepth == 2           \* nesting of transaction() scopes a thread opens
MaxOps == 3             \* scopes and statements the threads start in all

Threads == {"t1", "t2"}
Fin == "fin"
Procs == Threads \cup {Fin}
None == 0
NoErr == "none"

VARIABLES
    \* Pool
    pool,          \* Pool._pool: the idle deque, oldest first
    allocated,     \* Pool._allocated
    max_conns,     \* Pool._max_conns
    waiters,       \* threads blocked in Pool._cond.wait()
    \* driver
    stale,         \* connections in use or idle that were found dropped
    \* per thread: mediator and Context
    kind,          \* the thread's mediator: "single", "pooled" (on the
                   \* Pool) or "dummy" (a pooled mediator on a DummyPool)
    conn,          \* ConnectionMediatorBase.conn (None == 0)
    depth,         \* ConnectionMediatorBase.depth
    ctx_depth,     \* Context._depth
    frames,        \* open scopes, innermost last: "txn" (transaction()),
                   \* "mdr" (the `with ctx.mdr:` of a free function), or
                   \* the name of a Context (its `with ctx:`)
    pc,            \* where the thread is
    cont,          \* what called Pool.acquire(): "txn", "stmt" or "retry"
    attempts_left, \* the local of PooledConnectionMediator.cursor()
    factory,       \* the connection of the cursor of the row factory the
                   \* thread holds open (None == 0: it holds none)
    tries,         \* of the mediator's cursor() call in progress: the
                   \* attempts that failed and the Pool.discard() calls made
    exc,           \* the exception propagating in the thread
    \* history
    ops,           \* scopes and statements started so far, by all threads
    open,          \* per thread, of its open outermost transaction() scope
    discarded,     \* Pool.discard() has been called
    lost,          \* a SingleConnectionMediator has cleared its handle
                   \* in __exit__
    \* contexts: the Context made for thread c is called c
    stack,         \* Context.stack: the list of each thread-local storage
    cfield,        \* per Context: whether it was made, and whether its mdr
                   \* and its error-kind references are set (not None)
    ev             \* what the last step did

vars == <<pool, allocated, max_conns, waiters, stale, kind, conn, depth,
          ctx_depth, frames, pc, cont, attempts_left, factory, tries, exc,
          ops, open, discarded, lost, stack, cfield, ev>>

poolVars == <<pool, allocated, waiters>>

\* ------------------------------------------------------- driver error kinds
\* The driver's hierarchy (DB-API 2): Error > InterfaceError, DatabaseError;
\* DatabaseError > OperationalError, ProgrammingError, ...  "OperationalSub"
\* is a class the driver derives from its OperationalError.
Parent(e) ==
    CASE e = "OperationalSub"        -> "OperationalError"
      [] e = "OperationalError"      -> "DatabaseError"
      [] e = "ProgrammingError"      -> "DatabaseError"
      [] e = "DatabaseError"         -> "Error"
      [] e = "InterfaceError"        -> "Error"
      [] e = "KeyboardInterrupt"     -> "BaseException"
      [] e = "BaseException"         -> "BaseException"
      [] OTHER                       -> "Exception"

\* isinstance(e, cls), as an `except cls:` clause decides it.
IsInstance(e, cls) ==
    \/ e = cls
    \/ Parent(e) = cls
    \/ Parent(Parent(e)) = cls
    \/ Parent(Parent(Parent(e))) = cls
    \/ Parent(Parent(Parent(Parent(e)))) = cls

\* What the body of a scope may raise, what a statement may raise, and what a
\* cursor request on a dropped connection raises.
BodyErrors == {"OperationalError", "OperationalSub", "AbortTransactionError"}
StmtErrors == {"OperationalError", "ProgrammingError"}
StaleErrors == {"InterfaceError", "OperationalError"}

\* The exception propagating in a thread: its class now and the class first
\* raised (an exception raised while handling it replaces it).
NoExc == [kind |-> NoErr, raised |-> NoErr]

Raised(s, e) == [kind |-> s.err, raised |-> e]

\* Of a thread's open outermost transaction() scope: the commit() and
\* rollback() calls that reached its connection so far, and its shape:
\* "failed" once a scope or statement in it has ended with an exception,
\* else "nested" once a transaction() scope was opened inside it, else "flat";
\* and its work: "done" once a statement was executed in it, "moved" once
\* the mediator's connection was replaced by another after that.
NoOpen == [commits |-> 0, rollbacks |-> 0, shape |-> "flat", work |-> "none"]

\* How an outermost transaction() scope ended, for the step that ended it:
\* "ok" or the class that left it, whether it was left by an exception of its
\* body, and the scope's history.
NoScope == [result |-> NoErr, raise |-> FALSE, commits |-> 0, rollbacks |-> 0,
            shape |-> "flat", work |-> "none"]

\* A driver module without the attribute `threadsafety`.
NoThreadsafety == 0 - 1

\* A pool construction, for the step that ran it: the constructor called, the
\* driver's threadsafety, the max_conns passed, and the class of the pool
\* made or of the error raised.
NoMade == [route |-> "none", threadsafety |-> NoThreadsafety, max_conns |-> 0,
           result |-> "none"]

\* The cursor() call of a mediator in progress: no attempt has failed.
NoTries == [failed |-> 0, discards |-> 0]

\* What a mediator's cursor() returned, for the step in which it returned:
\* "working" for a cursor that answered the ping, "broken" for None or a
\* cursor whose ping failed; the connection the cursor is of, and the failed
\* attempts and the Pool.discard() calls of that cursor() call.
NoCursor == [state |-> "none", conn |-> None, failed |-> 0, discards |-> 0]

\* What the last step did: the thread, the connection its mediator held
\* before, the scopes it left, the pool calls and driver calls it made, the
\* cursor its mediator returned, the exception it delivered to the caller
\* of the thread's outermost scope or statement, and whether it was a call
\* of Context.close().
NoEv == [who |-> "none", held |-> None, exits |-> 0, discards |-> 0,
         released |-> {}, closed |-> {}, constructed |-> {}, popped |-> {},
         scope |-> NoScope, cursor |-> NoCursor, delivered |-> NoExc,
         closing |-> FALSE, session |-> <<>>, made |-> NoMade]

\* ------------------------------------------------------------------- Pool
\* A thread's view of the state one of its steps reads and writes.
View(t) ==
    [conn |-> conn[t], depth |-> depth[t], ctx |-> ctx_depth[t],
     pool |-> pool, allocated |-> allocated, stale |-> stale,
     commits |-> open[t].commits, rollbacks |-> open[t].rollbacks,
     work |-> open[t].work,
     notify |-> FALSE, err |-> NoErr,
     exits |-> 0, discards |-> 0, released |-> {}, closed |-> {},
     constructed |-> {}, popped |-> {},
     tries |-> tries[t], cursor |-> NoCursor, factory |-> factory[t],
     session |-> <<>>, has_conn |-> cfield[t].has_conn]

\* Connections something refers to.
Refs ==
    {conn[t] : t \in Threads} \cup {factory[t] : t \in Threads}
        \cup {pool[i] : i \in 1..Len(pool)}

\* The connection self._connect() returns: an object that is none of those
\* referred to.  The Pool's connections are numbered from 1 up, those of a
\* single mediator or a DummyPool from -1 down.
NewConn(k) ==
    LET sign == IF k = "pooled" THEN 1 ELSE 0 - 1
        used == {n \in 1..(Cardinality(Refs) + 1) : sign * n \in Refs}
    IN  sign * (CHOOSE n \in 1..(Cardinality(Refs) + 1) :
                    n \notin used /\ \A m \in 1..(n - 1) : m \in used)

\* Pool.acquire: `if self._allocated < self._max_conns`
MutCanConstructLeq(a, m) == a <= m
CanConstruct(a, m) == a < m

\* Pool.release: append to the idle deque, then _cond.notify().
MutReleaseDrops(s, c) == [s EXCEPT !.notify = TRUE, !.released = @ \cup {c}]
MutReleaseNoNotify(s, c) ==
    [s EXCEPT !.pool = Append(@, c), !.released = @ \cup {c}]
Pool_release(s, c) ==
    [s EXCEPT !.pool = Append(@, c), !.notify = TRUE, !.released = @ \cup {c}]

\* Pool.discard: decrement _allocated; no notify.
Pool_discard(s) == [s EXCEPT !.allocated = @ - 1, !.discards = @ + 1]

\* Pool.finalise: `while len(self._pool) < self._allocated: wait()`
FinaliseMustWait(p, a) == Len(p) < a

\* Pool.get_max_reattempts
MutReattemptsTooFew == max_conns - 1
MutReattemptsCapped ==
    IF allocated + 1 < max_conns THEN allocated + 1 ELSE max_conns
Pool_get_max_reattempts == max_conns + 1

\* PooledConnectionMediator.cursor, a round of the loop up to its acquire():
\* `self.pool.discard()`, after an attempt that failed on connection c.
MutRetryRoundKeeps(s, c) ==
    [s EXCEPT !.stale = @ \cup {c}, !.tries.failed = @ + 1]
RetryRound(s, c) ==
    LET s1 == Pool_discard([s EXCEPT !.stale = @ \cup {c}])
    IN  [s1 EXCEPT !.tries = [failed |-> @.failed + 1,
                              discards |-> @.discards + 1]]

\* _safe_close(obj): close(), any Exception suppressed (obj may be None).
SafeClose(s, c) ==
    IF c = None THEN s
    ELSE [s EXCEPT !.closed = @ \cup {c}, !.stale = @ \ {c}]

\* DummyPool.release: _safe_close(conn).  DummyPool.discard: pass.
MutDummyReleaseKeeps(s, c) == s
DummyPool_release(s, c) == SafeClose(s, c)

DummyPool_discard(s) == [s EXCEPT !.discards = @ + 1]

\* DummyPool.get_max_reattempts
DummyPool_get_max_reattempts == 0

\* --------------------------------------------------------------- mediators
\* `exc_type is self.OperationalError`: identity of the class, not isinstance.
MutIsConnLossAny(e) == e # NoErr
MutIsConnLossNever(e) == FALSE
IsConnLoss(e) == e = "OperationalError"

\* SingleConnectionMediator.__exit__
MutSingleExitKeeps(s, e) == [s EXCEPT !.depth = @ - 1, !.exits = @ + 1]
SingleConnectionMediator_exit(s, e) ==
    LET s1 == [s EXCEPT !.depth = @ - 1, !.exits = @ + 1]
    IN  IF IsConnLoss(e)
        THEN IF s1.has_conn
             THEN [SafeClose(s1, s1.conn) EXCEPT !.conn = None]
             ELSE [s1 EXCEPT !.err = "AttributeError"]
        ELSE s1

\* PooledConnectionMediator.__exit__
MutPooledExitReleasesEarly(s, e) ==
    LET s1 == [s EXCEPT !.depth = @ - 1, !.exits = @ + 1]
    IN  IF s1.conn # None
        THEN IF IsConnLoss(e)
             THEN [Pool_discard(s1) EXCEPT !.conn = None,
                                           !.stale = @ \ {s1.conn}]
             ELSE [Pool_release(s1, s1.conn) EXCEPT !.conn = None]
        ELSE s1
PooledConnectionMediator_exit(s, e) ==
    LET s1 == [s EXCEPT !.depth = @ - 1, !.exits = @ + 1]
    IN  IF s1.conn # None
        THEN IF IsConnLoss(e)
             THEN [Pool_discard(s1) EXCEPT !.conn = None,
                                           !.stale = @ \ {s1.conn}]
             ELSE IF s1.depth = 0
                  THEN [Pool_release(s1, s1.conn) EXCEPT !.conn = None]
                  ELSE s1
        ELSE s1

\* PooledConnectionMediator.__exit__ with a DummyPool as self.pool
DummyMediator_exit(s, e) ==
    LET s1 == [s EXCEPT !.depth = @ - 1, !.exits = @ + 1]
    IN  IF s1.conn # None
        THEN IF IsConnLoss(e)
             THEN [DummyPool_discard(s1) EXCEPT !.conn = None,
                                                !.stale = @ \ {s1.conn}]
             ELSE IF s1.depth = 0
                  THEN [DummyPool_release(s1, s1.conn) EXCEPT !.conn = None]
                  ELSE s1
        ELSE s1

MdrExit(k, s, e) ==
    CASE k = "single" -> SingleConnectionMediator_exit(s, e)
      [] k = "pooled" -> PooledConnectionMediator_exit(s, e)
      [] OTHER        -> DummyMediator_exit(s, e)

\* ConnectionMediatorBase.commit / rollback: self.conn.commit(); with conn
\* None the attribute lookup raises AttributeError.
Mdr_commit(s) ==
    IF s.conn = None THEN [s EXCEPT !.err = "AttributeError"]
    ELSE [s EXCEPT !.commits = @ + 1, !.session = Append(@, "commit")]

Mdr_rollback(s) ==
    IF s.conn = None THEN [s EXCEPT !.err = "AttributeError"]
    ELSE [s EXCEPT !.rollbacks = @ + 1, !.session = Append(@, "rollback")]

\* cursor.execute / cursor.callproc that succeeds, and cursor.close: what
\* the connection sees of them.
Cursor_execute(s) ==
    [s EXCEPT !.session = Append(@, "stmt"),
              !.work = IF @ = "none" THEN "done" ELSE @]

Cursor_close(s) == [s EXCEPT !.session = Append(@, "cursor-close")]

\* ----------------------------------------------------------------- Context
\* Context.transaction: `if self._depth == 0: self.mdr.commit()`
MutCommitAlways(d) == TRUE
CommitDue(d) == d = 0

\* Context.transaction: `if self._depth == 0: self.mdr.rollback()`
MutRollbackNever(d) == FALSE
RollbackDue(d) == d = 0

\* Context.transaction after the yield: the scope's exit with the body ending
\* normally (e = NoErr) or raising e.  The mediator was entered, so its
\* __exit__ runs last, with whatever is then propagating.  The two handlers
\* are `except self.mdr.OperationalError:` and `except Exception:`; what is
\* neither passes through with self._depth as the body left it.
transaction_exit(k, s, e) ==
    LET handled == e = NoErr \/ IsInstance(e, "Exception")
        s1 == IF handled THEN [s EXCEPT !.ctx = @ - 1, !.err = e]
              ELSE [s EXCEPT !.err = e]
        s2 == IF e = NoErr
              THEN IF CommitDue(s1.ctx) THEN Mdr_commit(s1) ELSE s1
              ELSE IF IsInstance(e, "OperationalError") \/ ~handled
                   THEN s1
                   ELSE IF RollbackDue(s1.ctx) THEN Mdr_rollback(s1) ELSE s1
    IN  MdrExit(k, s2, s2.err)

\* ------------------------------------------------------------ bookkeeping
Top(t) == IF frames[t] = <<>> THEN "none" ELSE frames[t][Len(frames[t])]
Pop(f) == SubSeq(f, 1, Len(f) - 1)

\* threading.Condition.notify(): one of the threads in wait(), if any.
Notify(s) ==
    IF s.notify /\ waiters # {}
    THEN \E w \in waiters : waiters' = waiters \ {w}
    ELSE waiters' = waiters

\* The view once a transaction() scope is entered on a mediator that holds
\* or needs no new connection: mediator depth and Context depth go up.
Entered(t) == [View(t) EXCEPT !.depth = @ + 1, !.ctx = @ + 1]

\* How the cursor() call of t's mediator ends in this step: in `state`, on
\* the connection the mediator holds, after `more` further failed attempts.
Returned(t, state, more) ==
    [state |-> state, conn |-> conn[t],
     failed |-> tries[t].failed + more, discards |-> tries[t].discards]

\* The history of thread t's open outermost scope after a step that ends in
\* view s: `opened` when the step entered a transaction() scope, `failed`
\* when a scope or statement ended with an exception.
OpenAfter(t, s, opened, failed) ==
    [commits   |-> s.commits,
     rollbacks |-> s.rollbacks,
     shape     |-> IF failed \/ open[t].shape = "failed" THEN "failed"
                   ELSE IF opened /\ ctx_depth[t] > 0 THEN "nested"
                   ELSE open[t].shape,
     work      |-> IF /\ open[t].work = "done"
                      /\ conn[t] # None /\ s.conn # None /\ s.conn # conn[t]
                   THEN "moved"
                   ELSE s.work]

\* How the step ended t's outermost transaction() scope, if it did.
ScopeAfter(t, s, opened, failed, byRaise) ==
    IF (opened \/ ctx_depth[t] > 0) /\ s.ctx = 0
    THEN LET h == OpenAfter(t, s, opened, failed)
         IN  [result |-> IF s.err = NoErr THEN "ok" ELSE s.err,
              raise |-> byRaise, commits |-> h.commits,
              rollbacks |-> h.rollbacks, shape |-> h.shape,
              work |-> h.work]
    ELSE NoScope

\* Write a step's view back: the mediator, the Context, the pool, and the
\* history; f is the thread's open scopes after the step and x the
\* exception then propagating (NoExc if none).  An exception that has left
\* every scope is delivered to the caller, who handles it.  A connection
\* nothing refers to any more is forgotten.
Put(t, s, f, x, opened, failed, byRaise) ==
    /\ conn' = [conn EXCEPT ![t] = s.conn]
    /\ depth' = [depth EXCEPT ![t] = s.depth]
    /\ ctx_depth' = [ctx_depth EXCEPT ![t] = s.ctx]
    /\ frames' = [frames EXCEPT ![t] = f]
    /\ exc' = [exc EXCEPT ![t] = IF f = <<>> THEN NoExc ELSE x]
    /\ pool' = s.pool
    /\ allocated' = s.allocated
    /\ stale' = s.stale \cap ({s.pool[i] : i \in 1..Len(s.pool)} \cup
                              {IF u = t THEN s.conn ELSE conn[u] : u \in Threads})
    /\ Notify(s)
    /\ discarded' = (discarded \/ s.discards > 0)
    /\ lost' = (lost \/ (kind[t] = "single" /\ conn[t] # None /\ s.conn = None))
    /\ tries' = [tries EXCEPT ![t] = s.tries]
    /\ factory' = [factory EXCEPT ![t] = s.factory]
    /\ cfield' = [cfield EXCEPT ![t].has_conn = s.has_conn]
    /\ UNCHANGED stack
    /\ open' = [open EXCEPT ![t] =
                  IF s.ctx = 0 THEN NoOpen
                  ELSE OpenAfter(t, s, opened, failed)]
    /\ LET sc == ScopeAfter(t, s, opened, failed, byRaise)
           d  == IF f = <<>> THEN x ELSE NoExc
       IN  ev' = IF /\ s.exits = 0 /\ s.discards = 0 /\ s.released = {}
                    /\ s.closed = {} /\ s.constructed = {}
                    /\ s.popped = {} /\ sc = NoScope /\ d = NoExc
                    /\ s.cursor = NoCursor /\ s.session = <<>>
                 THEN NoEv
                 ELSE [who |-> t, held |-> conn[t], exits |-> s.exits,
                       discards |-> s.discards, released |-> s.released,
                       closed |-> s.closed, constructed |-> s.constructed,
                       popped |-> s.popped, scope |-> sc,
                       cursor |-> s.cursor, delivered |-> d,
                       closing |-> FALSE, session |-> s.session,
                       made |-> NoMade]

\* What a step that writes no view leaves alone.
Still ==
    UNCHANGED <<pool, allocated, max_conns, stale, kind, conn, depth,
                ctx_depth, frames, factory, open, discarded, lost, stack,
                cfield>>

\* A step that calls nothing and raises nothing.
Quiet == ev' = NoEv /\ exc' = exc /\ tries' = tries /\ Still

\* A step of t that only raises e, in the scopes t has open; with none
\* open, e is delivered to the caller.  It ends the cursor() call in
\* progress, if any.
Raise(t, e) ==
    /\ tries' = [tries EXCEPT ![t] = NoTries]
    /\ exc' = [exc EXCEPT ![t] = IF frames[t] = <<>> THEN NoExc
                                 ELSE [kind |-> e, raised |-> e]]
    /\ ev' = IF frames[t] = <<>>
             THEN [NoEv EXCEPT !.who = t, !.held = conn[t],
                               !.delivered = [kind |-> e, raised |-> e]]
             ELSE NoEv
    /\ Still

\* -------------------------------------------------------------------- Init
\* A Context as Context.__init__ leaves it, one that was closed, and one
\* not made yet.
\* has_conn: the mediator made for it has its `conn` attribute (a slot, which
\* `del self.conn` leaves unset: reading it raises AttributeError).
LiveContext == [made |-> TRUE, mdr |-> TRUE, errs |-> TRUE, has_conn |-> TRUE]

NoContext ==
    [made |-> FALSE, mdr |-> FALSE, errs |-> FALSE, has_conn |-> TRUE]

\* A fresh Pool, and threads that have used nothing yet.
Fresh ==
    /\ pool = <<>>
    /\ allocated = 0
    /\ max_conns \in 1..MaxConnsBound
    /\ waiters = {}
    /\ stale = {}
    /\ kind \in {k \in [Threads -> {"single", "pooled", "dummy"}] :
                     k["t2"] = "pooled"}
    /\ conn = [t \in Threads |-> None]
    /\ depth = [t \in Threads |-> 0]
    /\ ctx_depth = [t \in Threads |-> 0]
    /\ frames = [t \in Threads |-> <<>>]
    /\ pc = [p \in Procs |-> IF p = Fin THEN "idle" ELSE "run"]
    /\ cont = [t \in Threads |-> "none"]
    /\ attempts_left = [t \in Threads |-> 0]
    /\ factory = [t \in Threads |-> None]
    /\ tries = [t \in Threads |-> NoTries]
    /\ exc = [t \in Threads |-> NoExc]
    /\ ops = 0
    /\ open = [t \in Threads |-> NoOpen]
    /\ discarded = FALSE
    /\ lost = FALSE
    /\ ev = NoEv

\* Each thread has its Context and is inside its `with ctx:`.
Init ==
    /\ Fresh
    /\ stack = [t \in Threads |-> <<t>>]
    /\ cfield = [t \in Threads |-> LiveContext]

\* --------------------------------------------- entering a transaction scope
\* A mediator that __enter__ finds with nothing to get:
\* PooledConnectionMediator at depth > 0, SingleConnectionMediator holding
\* its connection.
Holding(t) ==
    /\ cfield[t].mdr
    /\ IF kind[t] = "single" THEN conn[t] # None ELSE depth[t] > 0

\* A mediator whose __enter__ calls the driver's connect itself:
\* SingleConnectionMediator with conn None, PooledConnectionMediator at
\* depth 0 through DummyPool.acquire.
Connecting(t) ==
    /\ cfield[t].mdr
    /\ \/ kind[t] = "single" /\ conn[t] = None
       \/ kind[t] = "dummy" /\ depth[t] = 0

\* `with ctx.transaction():` on a mediator that enters without the pool:
\* PooledConnectionMediator.__enter__ at depth > 0, or
\* SingleConnectionMediator.__enter__ holding its connection.
TxnEnterHeld(t) ==
    /\ pc[t] = "run" /\ exc[t] = NoExc
    /\ ops < MaxOps /\ Len(frames[t]) < MaxDepth
    /\ Holding(t)
    /\ Put(t, Entered(t), Append(frames[t], "txn"), NoExc, TRUE, FALSE, FALSE)
    /\ ops' = ops + 1
    /\ UNCHANGED <<max_conns, kind, pc, cont, attempts_left>>

\* SingleConnectionMediator.__enter__ with conn None: the assertion, then
\* self.connect(), which the driver may fail with its OperationalError; or
\* PooledConnectionMediator.__enter__ at depth 0 on a DummyPool, whose
\* acquire() is the driver's connect.  An exception of __enter__ leaves the
\* `with` without entering the scope.
TxnEnterConnect(t) ==
    /\ pc[t] = "run" /\ exc[t] = NoExc
    /\ ops < MaxOps /\ Len(frames[t]) < MaxDepth
    /\ Connecting(t)
    /\ ops' = ops + 1
    /\ IF ~cfield[t].has_conn
       THEN Raise(t, "AttributeError") /\ UNCHANGED waiters
       ELSE IF kind[t] = "single" /\ depth[t] # 0
       THEN Raise(t, "AssertionError") /\ UNCHANGED waiters
       ELSE \/ Put(t, [Entered(t) EXCEPT
                         !.conn = NewConn(kind[t]),
                         !.constructed = {NewConn(kind[t])}],
                   Append(frames[t], "txn"), NoExc, TRUE, FALSE, FALSE)
            \/ Raise(t, "OperationalError") /\ UNCHANGED waiters
    /\ UNCHANGED <<max_conns, kind, pc, cont, attempts_left>>

\* PooledConnectionMediator.__enter__ at depth 0: self.pool.acquire().
TxnEnterAcquire(t) ==
    /\ pc[t] = "run" /\ exc[t] = NoExc
    /\ ops < MaxOps /\ Len(frames[t]) < MaxDepth
    /\ cfield[t].mdr
    /\ kind[t] = "pooled" /\ depth[t] = 0
    /\ pc' = [pc EXCEPT ![t] = "acquire"]
    /\ cont' = [cont EXCEPT ![t] = "txn"]
    /\ ops' = ops + 1
    /\ Quiet
    /\ UNCHANGED <<waiters, attempts_left>>

\* ------------------------------------------------------------ Pool.acquire
\* What the caller of acquire() does with the connection c it returns, in
\* the pool state of view s: the rest of PooledConnectionMediator.__enter__
\* (and of the entry of Context.transaction), or the assignment in the retry
\* loop of PooledConnectionMediator.cursor.
Acquired(t, c, s) ==
    /\ cont' = [cont EXCEPT ![t] = "none"]
    /\ CASE cont[t] = "txn" ->
              /\ Put(t, [s EXCEPT !.conn = c, !.depth = @ + 1, !.ctx = @ + 1],
                     Append(frames[t], "txn"), NoExc, TRUE, FALSE, FALSE)
              /\ pc' = [pc EXCEPT ![t] = "run"]
         [] cont[t] = "stmt" ->
              /\ Put(t, [s EXCEPT !.conn = c, !.depth = @ + 1],
                     Append(frames[t], "mdr"), NoExc, FALSE, FALSE, FALSE)
              /\ pc' = [pc EXCEPT ![t] = "cursor"]
         [] OTHER ->
              /\ Put(t, [s EXCEPT !.conn = c], frames[t], NoExc,
                     FALSE, FALSE, FALSE)
              /\ pc' = [pc EXCEPT ![t] = "reattempt"]

\* `if len(self._pool) > 0: conn = self._pool.popleft()`
AcquirePop(t) ==
    /\ pc[t] = "acquire" /\ t \notin waiters
    /\ pool # <<>>
    /\ Acquired(t, Head(pool), [View(t) EXCEPT !.pool = Tail(pool),
                                               !.popped = {Head(pool)}])
    /\ UNCHANGED <<max_conns, kind, attempts_left, ops>>

\* `if self._allocated < self._max_conns: conn = self._connect();
\*  self._allocated += 1`
AcquireConstruct(t) ==
    /\ pc[t] = "acquire" /\ t \notin waiters
    /\ pool = <<>>
    /\ CanConstruct(allocated, max_conns)
    /\ Acquired(t, NewConn("pooled"),
                [View(t) EXCEPT !.allocated = @ + 1,
                                !.constructed = {NewConn("pooled")}])
    /\ UNCHANGED <<max_conns, kind, attempts_left, ops>>

\* self._connect() raises the driver's OperationalError: the `finally`
\* releases the mutex and acquire() raises, the pool unchanged.
MutAcquireFailsAllocated(t) ==
    /\ pc[t] = "acquire" /\ t \notin waiters
    /\ pool = <<>>
    /\ CanConstruct(allocated, max_conns)
    /\ tries' = [tries EXCEPT ![t] = NoTries]
    /\ exc' = [exc EXCEPT ![t] = IF frames[t] = <<>> THEN NoExc
                                 ELSE [kind |-> "OperationalError",
                                       raised |-> "OperationalError"]]
    /\ ev' = IF frames[t] = <<>>
             THEN [NoEv EXCEPT !.who = t, !.held = conn[t],
                               !.delivered = [kind |-> "OperationalError",
                                              raised |-> "OperationalError"]]
             ELSE NoEv
    /\ allocated' = allocated + 1
    /\ pc' = [pc EXCEPT ![t] = "run"]
    /\ cont' = [cont EXCEPT ![t] = "none"]
    /\ attempts_left' = [attempts_left EXCEPT ![t] = 0]
    /\ UNCHANGED <<pool, max_conns, stale, kind, conn, depth, ctx_depth,
                   frames, factory, open, discarded, lost, stack, cfield,
                   waiters, ops>>
AcquireConnectFails(t) ==
    /\ pc[t] = "acquire" /\ t \notin waiters
    /\ pool = <<>>
    /\ CanConstruct(allocated, max_conns)
    /\ Raise(t, "OperationalError")
    /\ pc' = [pc EXCEPT ![t] = "run"]
    /\ cont' = [cont EXCEPT ![t] = "none"]
    /\ attempts_left' = [attempts_left EXCEPT ![t] = 0]
    /\ UNCHANGED <<waiters, ops>>

\* `self._cond.wait()`
AcquireWait(t) ==
    /\ pc[t] = "acquire" /\ t \notin waiters
    /\ pool = <<>>
    /\ ~CanConstruct(allocated, max_conns)
    /\ waiters' = waiters \cup {t}
    /\ Quiet
    /\ UNCHANGED <<pc, cont, attempts_left, ops>>

\* ---------------------------------------------- leaving a transaction scope
\* The body of the innermost transaction() scope ends normally.
TxnExit(t) ==
    /\ pc[t] = "run" /\ exc[t] = NoExc
    /\ Top(t) = "txn"
    /\ LET s == transaction_exit(kind[t], View(t), NoErr)
       IN  Put(t, s, Pop(frames[t]),
               IF s.err = NoErr THEN NoExc ELSE Raised(s, s.err),
               FALSE, s.err # NoErr, FALSE)
    /\ UNCHANGED <<max_conns, kind, pc, cont, attempts_left, ops>>

\* The body of the innermost transaction() scope raises e, which leaves the
\* scope.
TxnRaise(t, e) ==
    /\ pc[t] = "run" /\ exc[t] = NoExc
    /\ Top(t) = "txn"
    /\ LET s == transaction_exit(kind[t], View(t), e)
       IN  Put(t, s, Pop(frames[t]), Raised(s, e), FALSE, TRUE, TRUE)
    /\ UNCHANGED <<max_conns, kind, pc, cont, attempts_left, ops>>

\* The body of the innermost transaction() scope is interrupted: a
\* KeyboardInterrupt, which is not an Exception, leaves the scope.
TxnInterrupt(t) == TxnRaise(t, "KeyboardInterrupt")

\* The propagating exception leaves the next enclosing scope: a
\* transaction() scope, or the `with ctx.mdr:` of a free function.
Unwind(t) ==
    /\ pc[t] = "run" /\ exc[t] # NoExc
    /\ Top(t) \in {"txn", "mdr"}
    /\ LET s == IF Top(t) = "txn"
                THEN transaction_exit(kind[t], View(t), exc[t].kind)
                ELSE MdrExit(kind[t], [View(t) EXCEPT !.err = exc[t].kind],
                             exc[t].kind)
       IN  Put(t, s, Pop(frames[t]), Raised(s, exc[t].raised),
               FALSE, TRUE, TRUE)
    /\ UNCHANGED <<max_conns, kind, pc, cont, attempts_left, ops>>

\* The caller's `except` clause around a scope or statement in the body of
\* the enclosing transaction() scope.
Catch(t) ==
    /\ pc[t] = "run" /\ exc[t] # NoExc
    /\ Top(t) = "txn"
    /\ exc' = [exc EXCEPT ![t] = NoExc]
    /\ ev' = NoEv
    /\ Still
    /\ UNCHANGED <<waiters, pc, cont, attempts_left, tries, ops>>

\* The thread's function ends, every row factory it had closed.
Finish(t) ==
    /\ pc[t] = "run"
    /\ frames[t] = <<>>
    /\ factory[t] = None
    /\ pc' = [pc EXCEPT ![t] = "finished"]
    /\ Quiet
    /\ UNCHANGED <<waiters, cont, attempts_left, ops>>

\* ------------------------------------------------ a statement (dbkit.execute)
\* dbkit.execute: `with ctx.mdr:` on a mediator that enters without the
\* pool (as in TxnEnterHeld); then Context.execute asks for the cursor.
StmtBeginHeld(t) ==
    /\ pc[t] = "run" /\ exc[t] = NoExc
    /\ ops < MaxOps
    /\ Holding(t)
    /\ Put(t, [View(t) EXCEPT !.depth = @ + 1], Append(frames[t], "mdr"),
           NoExc, FALSE, FALSE, FALSE)
    /\ pc' = [pc EXCEPT ![t] = "cursor"]
    /\ ops' = ops + 1
    /\ UNCHANGED <<max_conns, kind, cont, attempts_left>>

\* dbkit.execute: `with ctx.mdr:` at depth 0 calls self.pool.acquire().
StmtBeginAcquire(t) ==
    /\ pc[t] = "run" /\ exc[t] = NoExc
    /\ ops < MaxOps
    /\ cfield[t].mdr
    /\ kind[t] = "pooled" /\ depth[t] = 0
    /\ pc' = [pc EXCEPT ![t] = "acquire"]
    /\ cont' = [cont EXCEPT ![t] = "stmt"]
    /\ ops' = ops + 1
    /\ Quiet
    /\ UNCHANGED <<waiters, attempts_left>>

\* dbkit.execute: `with ctx.mdr:` on a mediator whose __enter__ calls the
\* driver's connect (as in TxnEnterConnect).
StmtBeginConnect(t) ==
    /\ pc[t] = "run" /\ exc[t] = NoExc
    /\ ops < MaxOps
    /\ Connecting(t)
    /\ ops' = ops + 1
    /\ IF ~cfield[t].has_conn
       THEN Raise(t, "AttributeError") /\ UNCHANGED <<waiters, pc>>
       ELSE IF kind[t] = "single" /\ depth[t] # 0
       THEN Raise(t, "AssertionError") /\ UNCHANGED <<waiters, pc>>
       ELSE \/ /\ Put(t, [View(t) EXCEPT !.conn = NewConn(kind[t]),
                                          !.depth = @ + 1,
                                          !.constructed = {NewConn(kind[t])}],
                       Append(frames[t], "mdr"), NoExc, FALSE, FALSE, FALSE)
               /\ pc' = [pc EXCEPT ![t] = "cursor"]
            \/ Raise(t, "OperationalError") /\ UNCHANGED <<waiters, pc>>
    /\ UNCHANGED <<max_conns, kind, cont, attempts_left>>

\* PooledConnectionMediator.cursor, first attempt, with conn None:
\* `self.conn.cursor()` raises AttributeError, which no handler catches.
CursorNone(t) ==
    /\ pc[t] = "cursor"
    /\ conn[t] = None
    /\ Raise(t, "AttributeError")
    /\ pc' = [pc EXCEPT ![t] = "run"]
    /\ UNCHANGED <<waiters, cont, attempts_left, ops>>

\* PooledConnectionMediator.cursor, first attempt, on a connection the
\* server has dropped: InterfaceError or DatabaseError is caught,
\* `attempts_left = self.pool.get_max_reattempts()` (the budget of Pool is
\* never 0), and the loop's first round calls self.pool.discard() and goes on
\* to self.pool.acquire().
CursorStale(t) ==
    /\ pc[t] = "cursor"
    /\ kind[t] = "pooled"
    /\ conn[t] # None
    /\ Put(t, RetryRound(View(t), conn[t]),
           frames[t], NoExc, FALSE, FALSE, FALSE)
    /\ attempts_left' = [attempts_left EXCEPT ![t] = Pool_get_max_reattempts]
    /\ pc' = [pc EXCEPT ![t] = "acquire"]
    /\ cont' = [cont EXCEPT ![t] = "retry"]
    /\ UNCHANGED <<max_conns, kind, ops>>

\* `if attempts_left == 1: raise`
MutLastAttemptNever(n) == FALSE
LastAttempt(n) == n = 1

\* The loop's attempt on the connection just acquired fails with e:
\* `if attempts_left == 1: raise`, else `attempts_left -= 1` and the next
\* round: discard(), acquire().
ReattemptFail(t, e) ==
    /\ pc[t] = "reattempt"
    /\ IF LastAttempt(attempts_left[t])
       THEN /\ Put(t, [View(t) EXCEPT !.stale = @ \cup {conn[t]},
                                       !.tries = NoTries,
                                       !.cursor = Returned(t, "raised", 1)],
                   frames[t], [kind |-> e, raised |-> e], FALSE, FALSE, FALSE)
            /\ attempts_left' = [attempts_left EXCEPT ![t] = 0]
            /\ pc' = [pc EXCEPT ![t] = "run"]
            /\ UNCHANGED cont
       ELSE /\ Put(t, RetryRound(View(t), conn[t]),
                   frames[t], NoExc, FALSE, FALSE, FALSE)
            /\ attempts_left' = [attempts_left EXCEPT ![t] = @ - 1]
            /\ pc' = [pc EXCEPT ![t] = "acquire"]
            /\ cont' = [cont EXCEPT ![t] = "retry"]
    /\ UNCHANGED <<max_conns, kind, ops>>

\* SingleConnectionMediator.cursor, `self.conn.cursor()` raising
\* InterfaceError or DatabaseError on a connection the server has dropped:
\* `del self.conn`, then `self.conn = self.connect()`, which gives a new
\* connection (the old one is dropped unclosed) or fails with the driver's
\* OperationalError, the attribute left deleted.  The `except` clause covers
\* the first `self.conn.cursor()` only (MayReconnect): the one in the handler
\* and _ping(cursor) are outside it.
MutReconnectAgain(failed) == TRUE
MayReconnect(failed) == failed = 0

SingleCursorStale(t) ==
    /\ pc[t] = "cursor"
    /\ kind[t] = "single"
    /\ conn[t] # None /\ MayReconnect(tries[t].failed)
    /\ \/ /\ Put(t, [View(t) EXCEPT !.conn = NewConn(kind[t]),
                                     !.constructed = {NewConn(kind[t])},
                                     !.tries.failed = 1],
                  frames[t], NoExc, FALSE, FALSE, FALSE)
          /\ UNCHANGED pc
       \/ /\ Put(t, [View(t) EXCEPT !.conn = None, !.has_conn = FALSE,
                                     !.tries = NoTries,
                                     !.cursor = Returned(t, "raised", 1)],
                  frames[t],
                  [kind |-> "OperationalError", raised |-> "OperationalError"],
                  FALSE, FALSE, FALSE)
          /\ pc' = [pc EXCEPT ![t] = "run"]
    /\ UNCHANGED <<max_conns, kind, cont, attempts_left, ops>>

\* SingleConnectionMediator.cursor raising e: from _ping(cursor), which is
\* outside the `try`, or from `self.conn.cursor()` on the new connection.
SingleCursorFails(t, e) ==
    /\ pc[t] = "cursor"
    /\ kind[t] = "single"
    /\ conn[t] # None
    /\ Put(t, [View(t) EXCEPT !.stale = @ \cup {conn[t]},
                              !.tries = NoTries,
                              !.cursor = Returned(t, "raised", 1)],
           frames[t], [kind |-> e, raised |-> e], FALSE, FALSE, FALSE)
    /\ pc' = [pc EXCEPT ![t] = "run"]
    /\ UNCHANGED <<max_conns, kind, cont, attempts_left, ops>>

\* The mediator's cursor() has a working cursor: from its first attempt or
\* from an attempt of the loop (`break`), on a connection not seen dropped.
CursorReady(t) ==
    /\ pc[t] \in {"cursor", "reattempt"}
    /\ conn[t] # None /\ conn[t] \notin stale

\* The view of t once its mediator's cursor() has returned a cursor.
WithCursor(t) ==
    [View(t) EXCEPT !.tries = NoTries, !.cursor = Returned(t, "working", 0),
                    !.session = Append(@, "cursor")]

\* Context.execute on the cursor the mediator returned, the statement
\* succeeding: Context.cursor's `with self.transaction():` is entered,
\* cursor.execute() runs in it, and the scope exits normally.
MutExecuteAfterCommit(k, s) ==
    Cursor_execute(transaction_exit(k, [s EXCEPT !.depth = @ + 1,
                                                 !.ctx = @ + 1], NoErr))
Context_execute(k, s) ==
    transaction_exit(k, Cursor_execute([s EXCEPT !.depth = @ + 1,
                                                 !.ctx = @ + 1]), NoErr)

\* dbkit.execute, dbkit.execute_proc: Context.execute succeeds, the cursor
\* is closed with _safe_close and the `with ctx.mdr:` is left.
ExecOk(t) ==
    /\ CursorReady(t)
    /\ LET s0 == WithCursor(t)
           s1 == Context_execute(kind[t], s0)
           s2 == IF s1.err = NoErr
                 THEN MdrExit(kind[t], Cursor_close(s1), NoErr)
                 ELSE MdrExit(kind[t], s1, s1.err)
       IN  Put(t, s2, Pop(frames[t]),
               IF s2.err = NoErr THEN NoExc ELSE Raised(s2, s2.err),
               TRUE, s2.err # NoErr, FALSE)
    /\ pc' = [pc EXCEPT ![t] = "run"]
    /\ attempts_left' = [attempts_left EXCEPT ![t] = 0]
    /\ UNCHANGED <<max_conns, kind, cont, ops>>

\* Context.cursor, the code under its `yield cursor` raising e:
\* `except Exception:` ... `_safe_close(cursor)`, then `raise`.
Context_cursor_raise(s, e) ==
    IF IsInstance(e, "Exception") THEN Cursor_close(s) ELSE s

\* cursor.execute() raises e: Context.cursor closes the cursor, e leaves the
\* transaction() scope and then the `with ctx.mdr:` of dbkit.execute.
ExecFail(t, e) ==
    /\ CursorReady(t)
    /\ LET s0 == WithCursor(t)
           s1 == transaction_exit(kind[t],
                                  Context_cursor_raise(
                                      [s0 EXCEPT !.depth = @ + 1,
                                                 !.ctx = @ + 1], e),
                                  e)
           s2 == MdrExit(kind[t], s1, s1.err)
       IN  Put(t, s2, Pop(frames[t]), Raised(s2, e), TRUE, TRUE, TRUE)
    /\ pc' = [pc EXCEPT ![t] = "run"]
    /\ attempts_left' = [attempts_left EXCEPT ![t] = 0]
    /\ UNCHANGED <<max_conns, kind, cont, ops>>

\* Context.execute or Context.execute_proc called on the Context itself, not
\* through a free function, its mediator at depth 0 and holding no
\* connection.  Context.cursor runs `cursor = self.mdr.cursor()` before
\* `with self.transaction():`, so the mediator is not entered yet:
\* `self.conn.cursor()` on None raises AttributeError, which neither
\* mediator's cursor() handles, and nothing was entered or acquired.
ContextExecuteDirect(t) ==
    /\ pc[t] = "run" /\ exc[t] = NoExc
    /\ ops < MaxOps
    /\ cfield[t].mdr
    /\ depth[t] = 0 /\ conn[t] = None
    /\ ops' = ops + 1
    /\ tries' = [tries EXCEPT ![t] = NoTries]
    /\ exc' = [exc EXCEPT ![t] = IF frames[t] = <<>> THEN NoExc
                                 ELSE [kind |-> "AttributeError",
                                       raised |-> "AttributeError"]]
    /\ ev' = [NoEv EXCEPT !.who = t, !.held = conn[t],
                          !.cursor = Returned(t, "raised", 1),
                          !.delivered = IF frames[t] = <<>>
                                        THEN [kind |-> "AttributeError",
                                              raised |-> "AttributeError"]
                                        ELSE NoExc]
    /\ Still
    /\ UNCHANGED <<waiters, pc, cont, attempts_left>>

\* cursor.execute() is interrupted: a KeyboardInterrupt, which is not an
\* Exception, leaves Context.execute.
ExecInterrupt(t) == ExecFail(t, "KeyboardInterrupt")

\* dbkit.query: Context.execute as in dbkit.execute, succeeding; the row
\* factory made of the cursor enters the mediator (FactoryBase.__init__),
\* then the `with ctx.mdr:` of dbkit.query is left: the caller holds the
\* factory, its cursor open, and the mediator stays entered.
QueryOk(t) ==
    /\ CursorReady(t)
    /\ factory[t] = None
    /\ LET s0 == WithCursor(t)
           s1 == Context_execute(kind[t], s0)
           s2 == IF s1.err = NoErr
                 THEN MdrExit(kind[t],
                              [s1 EXCEPT !.depth = @ + 1,
                                         !.factory = conn[t]],
                              NoErr)
                 ELSE MdrExit(kind[t], s1, s1.err)
       IN  Put(t, s2, Pop(frames[t]),
               IF s2.err = NoErr THEN NoExc ELSE Raised(s2, s2.err),
               TRUE, s2.err # NoErr, FALSE)
    /\ pc' = [pc EXCEPT ![t] = "run"]
    /\ attempts_left' = [attempts_left EXCEPT ![t] = 0]
    /\ UNCHANGED <<max_conns, kind, cont, ops>>

\* FactoryBase.close, from the caller, from __next__ at the end of the rows
\* or from __del__: self.cursor.close(), which succeeds (e = NoErr) or
\* raises e; the mediator's __exit__ with what it raised; e is re-raised.
FactoryClose(t, e) ==
    /\ pc[t] = "run" /\ exc[t] = NoExc
    /\ factory[t] # None
    /\ LET s == MdrExit(kind[t],
                        Cursor_close([View(t) EXCEPT !.err = e,
                                                     !.factory = None]), e)
       IN  Put(t, s, frames[t],
               IF e = NoErr THEN NoExc ELSE Raised(s, e),
               FALSE, e # NoErr, FALSE)
    /\ UNCHANGED <<max_conns, kind, pc, cont, attempts_left, ops>>

\* PooledConnectionMediator.cursor on a DummyPool, the attempt failing on a
\* dropped connection: `attempts_left = self.pool.get_max_reattempts()` is
\* 0, the loop is not entered and `return cursor` returns None (the cursor
\* request raised) or the cursor whose ping raised.  Context.cursor enters
\* its transaction() scope and yields it; cursor.execute() on it raises e:
\* AttributeError on None, else the driver's error for the dropped
\* connection.
DummyCursorStale(t, e) ==
    /\ pc[t] = "cursor"
    /\ kind[t] = "dummy"
    /\ conn[t] # None
    /\ DummyPool_get_max_reattempts = 0
    /\ LET s0 == [View(t) EXCEPT !.stale = @ \cup {conn[t]},
                                 !.tries = NoTries,
                                 !.cursor = Returned(t, "broken", 1)]
           s1 == transaction_exit(kind[t],
                                  [s0 EXCEPT !.depth = @ + 1, !.ctx = @ + 1],
                                  e)
           s2 == MdrExit(kind[t], s1, s1.err)
       IN  Put(t, s2, Pop(frames[t]), Raised(s2, e), TRUE, TRUE, TRUE)
    /\ pc' = [pc EXCEPT ![t] = "run"]
    /\ UNCHANGED <<max_conns, kind, cont, attempts_left, ops>>

\* ----------------------------------------------------------- Pool.finalise
\* `while len(self._pool) < self._allocated: self._cond.wait()`
FinaliseWait ==
    /\ pc[Fin] \in {"idle", "finalise"} /\ Fin \notin waiters
    /\ FinaliseMustWait(pool, allocated)
    /\ waiters' = waiters \cup {Fin}
    /\ pc' = [pc EXCEPT ![Fin] = "finalise"]
    /\ Quiet
    /\ UNCHANGED <<cont, attempts_left, ops>>

\* `for conn in self._pool: self._allocated -= 1; _safe_close(conn)`, then
\* `self._pool.clear()`.
FinaliseDrain ==
    /\ pc[Fin] \in {"idle", "finalise"} /\ Fin \notin waiters
    /\ ~FinaliseMustWait(pool, allocated)
    /\ allocated' = allocated - Len(pool)
    /\ stale' = stale \ {pool[i] : i \in 1..Len(pool)}
    /\ pool' = <<>>
    /\ pc' = [pc EXCEPT ![Fin] = "done"]
    /\ ev' = [NoEv EXCEPT !.who = Fin,
                          !.closed = {pool[i] : i \in 1..Len(pool)}]
    /\ UNCHANGED <<waiters, max_conns, kind, conn, depth, ctx_depth, frames,
                   cont, attempts_left, factory, tries, exc, ops, open,
                   discarded, lost, stack, cfield>>

\* ------------------------------------------------- Context and its stack
\* threading.local: the storage that Context.stack resolves to in thread t.
MutStackOfShared(t) == "t1"
StackOf(t) == t

\* _ContextStack.push, pop, top
ContextStack_push(st, c) == Append(st, c)

MutPopFirst(st) == Tail(st)
ContextStack_pop(st) == SubSeq(st, 1, Len(st) - 1)

NoCtx == "None"

ContextStack_top(st) == IF Len(st) > 0 THEN st[Len(st)] ELSE NoCtx

\* Context.current(with_exception) in thread t: the Context it returns, or
\* the error it raises.
Context_current(t, with_exception) ==
    IF with_exception /\ Len(stack[StackOf(t)]) = 0 THEN "NoContextError"
    ELSE ContextStack_top(stack[StackOf(t)])

\* Context.__init__ with the mediator made for it (PoolBase.connect,
\* dbkit.connect): the mediator holds nothing, at depth 0.
MutContextInitConnects(s) ==
    [s EXCEPT !.conn = NewConn("pooled"), !.allocated = @ + 1,
              !.depth = 0, !.ctx = 0]
Context_init(s) == [s EXCEPT !.conn = None, !.depth = 0, !.ctx = 0]

\* Context.close: the error-kind references, then `finally: self.mdr = None`
MutCloseKeepsErrs(x) == [x EXCEPT !.mdr = FALSE]
Context_close(x) == [x EXCEPT !.errs = FALSE, !.mdr = FALSE]

\* What a step on the context stack leaves alone.
CtxRest ==
    UNCHANGED <<max_conns, waiters, stale, kind, ctx_depth, pc, cont,
                attempts_left, factory, tries, ops, open, discarded, lost>>

\* Pool.connect(), DummyPool.connect() or dbkit.connect(): the Context of
\* thread t is made.
ContextMake(t) ==
    /\ pc[t] = "run" /\ exc[t] = NoExc
    /\ ~cfield[t].made
    /\ cfield' = [cfield EXCEPT ![t] = LiveContext]
    /\ LET s == Context_init(View(t))
       IN  /\ conn' = [conn EXCEPT ![t] = s.conn]
           /\ depth' = [depth EXCEPT ![t] = s.depth]
           /\ pool' = s.pool
           /\ allocated' = s.allocated
    /\ ev' = NoEv
    /\ UNCHANGED <<stack, frames, exc>>
    /\ CtxRest

\* `with c:` in thread t: Context.__enter__
CtxEnter(t, c) ==
    /\ pc[t] = "run" /\ exc[t] = NoExc
    /\ cfield[c].made
    /\ Len(frames[t]) < MaxDepth
    /\ stack' = [stack EXCEPT ![StackOf(t)] = ContextStack_push(@, c)]
    /\ frames' = [frames EXCEPT ![t] = Append(@, c)]
    /\ ev' = NoEv
    /\ UNCHANGED <<cfield, exc, conn, depth, pool, allocated>>
    /\ CtxRest

\* The body of the innermost `with c:` ends normally: Context.__exit__
CtxExit(t) ==
    /\ pc[t] = "run" /\ exc[t] = NoExc
    /\ Top(t) \in Threads
    /\ stack' = [stack EXCEPT ![StackOf(t)] = ContextStack_pop(@)]
    /\ frames' = [frames EXCEPT ![t] = Pop(@)]
    /\ ev' = NoEv
    /\ UNCHANGED <<cfield, exc, conn, depth, pool, allocated>>
    /\ CtxRest

\* The propagating exception leaves the innermost `with c:`:
\* Context.__exit__, which does not suppress it.
CtxExitRaise(t) ==
    /\ pc[t] = "run" /\ exc[t] # NoExc
    /\ Top(t) \in Threads
    /\ stack' = [stack EXCEPT ![StackOf(t)] = ContextStack_pop(@)]
    /\ frames' = [frames EXCEPT ![t] = Pop(@)]
    /\ exc' = [exc EXCEPT ![t] = IF Pop(frames[t]) = <<>> THEN NoExc ELSE @]
    /\ ev' = IF Pop(frames[t]) = <<>>
             THEN [NoEv EXCEPT !.who = t, !.held = conn[t],
                               !.delivered = exc[t]]
             ELSE NoEv
    /\ UNCHANGED <<cfield, conn, depth, pool, allocated>>
    /\ CtxRest

\* ctx.close() by thread t on its Context, outside every scope of its
\* mediator: the error-kind references are set to None, then
\* self.mdr.close() (SingleConnectionMediator.close closes the connection
\* and clears the handle, PooledConnectionMediator.close does nothing; on a
\* Context closed before, self.mdr is None and the call raises
\* AttributeError), then `finally: self.mdr = None`.
CtxClose(t) ==
    /\ pc[t] = "run" /\ exc[t] = NoExc
    /\ cfield[t].made
    /\ depth[t] = 0 /\ factory[t] = None
    /\ cfield' = [cfield EXCEPT ![t] = Context_close(@)]
    /\ LET s == IF cfield[t].mdr /\ kind[t] = "single"
                THEN [SafeClose(View(t), conn[t]) EXCEPT !.conn = None]
                ELSE View(t)
           x == IF cfield[t].mdr /\ cfield[t].has_conn THEN NoExc
                ELSE [kind |-> "AttributeError", raised |-> "AttributeError"]
       IN  /\ conn' = [conn EXCEPT ![t] = s.conn]
           /\ stale' = s.stale
           /\ exc' = [exc EXCEPT ![t] = IF frames[t] = <<>> THEN NoExc ELSE x]
           /\ ev' = [NoEv EXCEPT !.who = t, !.held = conn[t],
                                 !.closed = s.closed,
                                 !.delivered = IF frames[t] = <<>> THEN x
                                               ELSE NoExc,
                                 !.closing = TRUE]
    /\ UNCHANGED <<stack, frames, depth, pool, allocated, max_conns, waiters,
                   kind, ctx_depth, pc, cont, attempts_left, factory, tries,
                   ops, open, discarded, lost>>

\* ------------------------------------------------------ pool construction
\* The levels a driver module may advertise, and the sizes a caller may ask.
Threadsafeties == {NoThreadsafety, 0, 1, 2}

MaxConnsArgs == 0..MaxConnsBound

\* PoolBase.__init__(module, threadsafety, args, kwargs): the error it
\* raises, if any.
PoolBase_init(ts, required) ==
    IF ts = NoThreadsafety THEN "NotSupportedError"
    ELSE IF ts < required THEN "NotSupportedError"
    ELSE NoErr

\* Pool.__init__(module, max_conns): super().__init__(module, 2, ...), then
\* the fields; max_conns is stored as given.
Pool_init(ts, m) ==
    IF PoolBase_init(ts, 2) # NoErr THEN PoolBase_init(ts, 2) ELSE "Pool"

\* DummyPool.__init__(module): super().__init__(module, 1, ...)
DummyPool_init(ts) ==
    IF PoolBase_init(ts, 1) # NoErr THEN PoolBase_init(ts, 1) ELSE "DummyPool"

\* create_pool(module, max_conns)
create_pool(ts, m) ==
    IF ts = NoThreadsafety THEN "NotSupportedError"
    ELSE IF m < 1 THEN "ValueError"
    ELSE IF ts >= 2 THEN Pool_init(ts, m)
    ELSE IF ts >= 1 THEN DummyPool_init(ts)
    ELSE "ValueError"

\* What a call of the constructor `route` gives.
Construct(route, ts, m) ==
    CASE route = "create_pool" -> create_pool(ts, m)
      [] route = "Pool"        -> Pool_init(ts, m)
      [] OTHER                 -> DummyPool_init(ts)

\* The program constructs its pool, by create_pool() or by a pool class
\* directly, on a driver of threadsafety ts and asking for m connections.
\* With a pool made, its threads start, each with a Context of the pool
\* (PoolBase.connect); an error ends the program.
PoolMake(route, ts, m) ==
    /\ \A p \in Procs : pc[p] = "new"
    /\ LET r == Construct(route, ts, m)
       IN  /\ ev' = [NoEv EXCEPT !.made = [route |-> route, threadsafety |-> ts,
                                           max_conns |-> m, result |-> r]]
           /\ IF r \in {"Pool", "DummyPool"}
              THEN /\ pc' = [p \in Procs |-> IF p = Fin THEN "idle" ELSE "run"]
                   /\ kind' = [t \in Threads |->
                                  IF r = "Pool" THEN "pooled" ELSE "dummy"]
                   /\ max_conns' = IF r = "Pool" THEN m ELSE max_conns
              ELSE /\ pc' = [p \in Procs |-> "failed"]
                   /\ UNCHANGED <<kind, max_conns>>
    /\ UNCHANGED <<pool, allocated, waiters, stale, conn, depth, ctx_depth,
                   frames, cont, attempts_left, factory, tries, exc, ops,
                   open, discarded, lost, stack, cfield>>

\* -------------------------------------------------------------------- Next
\* What a thread does with transaction() scopes.
TxnStep(t) ==
    \/ TxnEnterHeld(t)
    \/ TxnEnterConnect(t)
    \/ TxnEnterAcquire(t)
    \/ AcquirePop(t)
    \/ AcquireConstruct(t)
    \/ AcquireConnectFails(t)
    \/ AcquireWait(t)
    \/ TxnExit(t)
    \/ \E e \in BodyErrors : TxnRaise(t, e)
    \/ Unwind(t)
    \/ Catch(t)
    \/ Finish(t)

\* What a thread does with statements.
StmtStep(t) ==
    \/ StmtBeginHeld(t)
    \/ StmtBeginAcquire(t)
    \/ StmtBeginConnect(t)
    \/ CursorNone(t)
    \/ CursorStale(t)
    \/ \E e \in StaleErrors \cup {"AttributeError"} : DummyCursorStale(t, e)
    \/ \E e \in StaleErrors : ReattemptFail(t, e)
    \/ ExecOk(t)
    \/ \E e \in StmtErrors : ExecFail(t, e)
    \/ QueryOk(t)
    \/ SingleCursorStale(t)
    \/ \E e \in StaleErrors : SingleCursorFails(t, e)
    \/ \E e \in {NoErr, "OperationalError"} : FactoryClose(t, e)

Workers == \E t \in Threads : TxnStep(t) \/ StmtStep(t)

Next == Workers \/ FinaliseWait \/ FinaliseDrain

\* The worker threads, nobody calling finalise() meanwhile.
Spec == Init /\ [][Workers]_vars

\* The threads of Init on a Pool of one connection.
InitOne == Init /\ max_conns = 1

\* The worker threads, and a thread that calls Pool.finalise() at any
\* moment.
SpecFin == InitOne /\ [][Next]_vars

\* What a thread does inside Pool.acquire().
AcquireStep(t) ==
    \/ AcquirePop(t)
    \/ AcquireConstruct(t)
    \/ AcquireConnectFails(t)
    \/ AcquireWait(t)

\* Worker threads that run transaction() scopes only, nobody calling
\* finalise() meanwhile.  A thread inside acquire() that can run does run:
\* the interpreter schedules every runnable thread, and a thread in
\* _cond.wait() runs again only once it is notified.
TxnWorkers == \E t \in Threads : TxnStep(t)

SpecFair ==
    /\ Init
    /\ [][TxnWorkers]_vars
    /\ \A t \in Threads : WF_vars(AcquireStep(t))

\* What a thread does with Contexts.
CtxStep(t) ==
    \/ ContextMake(t)
    \/ \E c \in Threads : CtxEnter(t, c)
    \/ CtxExit(t)
    \/ CtxExitRaise(t)
    \/ CtxClose(t)

\* Threads that make, enter, leave and close Contexts, and run
\* transaction() scopes on their own Context.
InitCtx ==
    /\ Fresh
    /\ stack = [t \in Threads |-> <<>>]
    /\ cfield = [t \in Threads |-> NoContext]

NextCtx == \E t \in Threads : CtxStep(t) \/ TxnStep(t)

SpecCtx == InitCtx /\ [][NextCtx]_vars

\* Threads that run transaction() scopes whose bodies may be interrupted.
NextInt == TxnWorkers \/ \E t \in Threads : TxnInterrupt(t)

SpecInt == Init /\ [][NextInt]_vars

\* Worker threads that run transaction() scopes and call Context.execute
\* on their Context directly.
NextDirect == TxnWorkers \/ \E t \in Threads : ContextExecuteDirect(t)

SpecDirect == Init /\ [][NextDirect]_vars

\* Worker threads whose statements may be interrupted while they execute.
NextExecInt == Workers \/ \E t \in Threads : ExecInterrupt(t)

SpecExecInt == InitOne /\ [][NextExecInt]_vars

\* A thread that asks its mediator for a cursor while every connection the
\* Pool has allocated was dropped by the server: the one its mediator holds
\* and the idle ones (they were used and released earlier).  The thread is
\* inside the `with ctx.mdr:` of a statement, at top level or in the body of
\* a transaction() scope; the other thread has finished.
InitRetry ==
    /\ max_conns \in 1..MaxConnsBound
    /\ allocated \in 1..max_conns
    /\ pool = [i \in 1..(allocated - 1) |-> i + 1]
    /\ stale = 1..allocated
    /\ waiters = {}
    /\ kind = [t \in Threads |-> "pooled"]
    /\ \E t \in Threads : \E nested \in BOOLEAN :
           /\ conn = [u \in Threads |-> IF u = t THEN 1 ELSE None]
           /\ depth = [u \in Threads |->
                          IF u # t THEN 0 ELSE IF nested THEN 2 ELSE 1]
           /\ ctx_depth = [u \in Threads |-> IF u = t /\ nested THEN 1 ELSE 0]
           /\ frames = [u \in Threads |->
                           IF u # t THEN <<>>
                           ELSE IF nested THEN <<"txn", "mdr">> ELSE <<"mdr">>]
           /\ pc = [p \in Procs |-> IF p = Fin THEN "idle"
                                     ELSE IF p = t THEN "cursor"
                                     ELSE "finished"]
    /\ cont = [t \in Threads |-> "none"]
    /\ attempts_left = [t \in Threads |-> 0]
    /\ factory = [t \in Threads |-> None]
    /\ tries = [t \in Threads |-> NoTries]
    /\ exc = [t \in Threads |-> NoExc]
    /\ ops = 1
    /\ open = [t \in Threads |-> NoOpen]
    /\ discarded = FALSE
    /\ lost = FALSE
    /\ ev = NoEv
    /\ stack = [t \in Threads |-> <<t>>]
    /\ cfield = [t \in Threads |-> LiveContext]

\* The statement of that thread, with nobody else at the pool: an attempt
\* fails exactly on a connection that was dropped, a newly constructed
\* connection works, and the driver's connect succeeds.
RetryStep(t) ==
    \/ conn[t] \in stale /\ CursorStale(t)
    \/ AcquirePop(t)
    \/ AcquireConstruct(t)
    \/ conn[t] \in stale /\ \E e \in StaleErrors : ReattemptFail(t, e)
    \/ ExecOk(t)
    \/ QueryOk(t)
    \/ \E e \in StmtErrors : ExecFail(t, e)
    \/ \E e \in {NoErr, "OperationalError"} : FactoryClose(t, e)
    \/ TxnExit(t)
    \/ Unwind(t)
    \/ Finish(t)

NextRetry == \E t \in Threads : RetryStep(t)

SpecRetry == InitRetry /\ [][NextRetry]_vars


\* transaction() scopes on it.
InitMake ==
    /\ pool = <<>>
    /\ allocated = 0
    /\ max_conns = 0
    /\ waiters = {}
    /\ stale = {}
    /\ kind = [t \in Threads |-> "pooled"]
    /\ conn = [t \in Threads |-> None]
    /\ depth = [t \in Threads |-> 0]
    /\ ctx_depth = [t \in Threads |-> 0]
    /\ frames = [t \in Threads |-> <<>>]
    /\ pc = [p \in Procs |-> "new"]
    /\ cont = [t \in Threads |-> "none"]
    /\ attempts_left = [t \in Threads |-> 0]
    /\ factory = [t \in Threads |-> None]
    /\ tries = [t \in Threads |-> NoTries]
    /\ exc = [t \in Threads |-> NoExc]
    /\ ops = 0
    /\ open = [t \in Threads |-> NoOpen]
    /\ discarded = FALSE
    /\ lost = FALSE
    /\ ev = NoEv
    /\ stack = [t \in Threads |-> <<t>>]
    /\ cfield = [t \in Threads |-> LiveContext]

NextMake ==
    \/ \E route \in {"create_pool", "Pool", "DummyPool"} :
           \E ts \in Threadsafeties : \E m \in MaxConnsArgs :
               PoolMake(route, ts, m)
    \/ TxnWorkers

SpecMake == InitMake /\ [][NextMake]_vars

\* ================================================================== claims
\* C1: over nested transaction() scopes on one Context, commit() reaches the
\* connection exactly once, when the outermost scope exits normally (the
\* Context's depth is back at 0); no commit() has been made while a scope is
\* still open, that is, at the exit of an inner scope.
C1_CommitOnceAtOutermostExit ==
    /\ \A t \in Threads : ctx_depth[t] > 0 => open[t].commits = 0
    /\ ev.scope.result = "ok" =>
           ev.scope.commits = 1 /\ ev.scope.rollbacks = 0

\* Nested scopes have all exited normally; the commit was made once.
C1_Witness ==
    /\ ev.scope.result = "ok"
    /\ ev.scope.shape = "nested"
    /\ ev.scope.commits = 1
    /\ ctx_depth[ev.who] = 0

\* C2: an exception other than the driver's OperationalError raised in the
\* body of a transaction() scope and leaving every enclosing scope: rollback()
\* is invoked exactly once, only when the depth is back at 0, commit() is not
\* invoked, and the caller receives the exception that was raised.
C2_RollbackOnceAtOutermostExit ==
    /\ \A t \in Threads : ctx_depth[t] > 0 => open[t].rollbacks = 0
    /\ (/\ ev.scope.raise
        /\ ~IsInstance(ev.delivered.raised, "OperationalError")) =>
           /\ ev.scope.rollbacks = 1
           /\ ev.scope.commits = 0
           /\ ev.delivered.kind = ev.delivered.raised

\* A scope of thread ev.who was just left with the driver's OperationalError
\* while its mediator held a connection.
LeftOnConnLoss ==
    /\ ev.exits > 0
    /\ ev.held # None
    /\ \/ ev.delivered.kind = "OperationalError"
       \/ exc[ev.who].kind = "OperationalError"

\* The entries of t's mediator that scopes do not account for: one for the
\* row factory t holds open.
FactoryEntries(t) == IF factory[t] # None THEN 1 ELSE 0

C4_PoolBounds ==
    /\ allocated <= max_conns
    /\ Len(pool) <= allocated

\* C5: Pool.acquire() returns a connection only by popping the head of the
\* idle set (allocated unchanged) or, the idle set being empty and
\* allocated < max_conns, by constructing one and adding one to allocated;
\* so it does not return while allocated = max_conns with nothing idle.
C5_AcquireReturns ==
    [][\A t \in Threads :
          (/\ pc[t] = "acquire" /\ pc'[t] # "acquire"
           /\ exc'[t] = NoExc /\ ev'.delivered = NoExc) =>
              \/ /\ pool # <<>>
                 /\ conn'[t] = Head(pool)
                 /\ pool' = Tail(pool)
                 /\ allocated' = allocated
              \/ /\ pool = <<>>
                 /\ allocated < max_conns
                 /\ allocated' = allocated + 1
                 /\ pool' = pool
                 /\ conn'[t] \notin Refs \cup {None}]_vars

\* One thread's acquire() has returned the pool's last connection and
\* another is blocked in acquire() with allocated = max_conns, nothing idle.
C5_Witness ==
    \E t, u \in Threads :
        /\ t # u /\ kind[t] = "pooled" /\ kind[u] = "pooled"
        /\ conn[u] # None /\ ev.constructed = {}
        /\ pc[t] = "acquire" /\ t \in waiters
        /\ allocated = max_conns /\ pool = <<>>

\* With max_conns = 1, a thread's outermost transaction() scope has just
\* exited and released connection c, which it held; the other thread is in
\* acquire(), and no thread starts a further scope or statement.
C6_Released(c) ==
    /\ max_conns = 1
    /\ ev.released = {c} /\ ev.held = c /\ ev.scope.result # NoErr
    /\ \E b \in Threads \ {ev.who} : pc[b] = "acquire"
    /\ ops = MaxOps

\* The other thread's acquire() has just returned connection c, popped from
\* the idle set; nothing was constructed and allocated is 1.
C6_HandedOver(c) ==
    /\ ev.popped = {c} /\ ev.constructed = {}
    /\ conn[ev.who] = c /\ pc[ev.who] # "acquire"
    /\ allocated = 1 /\ pool = <<>>

\* C6: with max_conns = 1, thread A holding the only connection inside a
\* transaction and thread B in acquire(): once A's outermost scope has exited
\* and released the connection, B's acquire() eventually returns that same
\* connection, popped from the idle set, with allocated still 1.  (A pool
\* with max_conns = 1 whose threads run transactions has one connection at
\* a time, numbered 1.)
C6_ReleaseHandsOver == C6_Released(1) ~> C6_HandedOver(1)

\* B blocked in acquire() was handed the connection A released.
C6_Witness ==
    \E b \in Threads :
        /\ max_conns = 1 /\ ops = MaxOps
        /\ ev.who = b /\ ev.popped = {conn[b]}
        /\ \E a \in Threads \ {b} : kind[a] = "pooled" /\ pc[a] = "finished"
        /\ allocated = 1 /\ pool = <<>>

\* C7: while a thread is blocked in acquire() with allocated = max_conns and
\* nothing idle, a discard() by another thread wakes at least one waiter.
C7_DiscardWakesWaiter ==
    [][(/\ \E t \in Threads :
              pc[t] = "acquire" /\ t \in waiters
        /\ allocated = max_conns /\ pool = <<>>
        /\ ev'.discards > 0 /\ allocated' < allocated)
          => waiters' # waiters]_vars

\* C8: finalise() returns only from a state with len(idle set) = allocated,
\* and leaves allocated = 0 and the idle set empty, every connection that
\* was idle closed.
C8_FinaliseEmptiesPool ==
    [][(pc[Fin] # "done" /\ pc'[Fin] = "done") =>
          /\ Len(pool) = allocated
          /\ allocated' = 0 /\ pool' = <<>>
          /\ ev'.closed = {pool[i] : i \in 1..Len(pool)}]_vars

\* C9: a thread blocked in finalise() returns once every checked-out
\* connection has been given back, by release or by discard: it is not left
\* waiting when all workers have finished and hold nothing.
C9_FinaliseNotLeftWaiting ==
    ~(/\ Fin \in waiters
      /\ \A t \in Threads : pc[t] = "finished" /\ conn[t] = None)

\* Thread t is the only user of the pool, and finalise() has not run.
Solo(t) ==
    /\ kind[t] = "pooled"
    /\ \A u \in Threads \ {t} : kind[u] = "single"
    /\ pc[Fin] # "done"

\* The pool's live connections: idle or held by a pooled mediator.
PoolConns ==
    ({pool[i] : i \in 1..Len(pool)} \cup
     {conn[t] : t \in {u \in Threads : kind[u] = "pooled"}}) \ {None}

\* C10: acquire and release repeated with no discard: allocated stays at the
\* value it had after the first acquire, one connection is all that is ever
\* constructed, and each later acquire returns that connection from the
\* idle set.
C10_RoundTripReuses ==
    \A t \in Threads :
        (Solo(t) /\ ~discarded) =>
            /\ PoolConns \subseteq {1}
            /\ allocated = Cardinality(PoolConns)
            /\ Len(pool) <= 1
            /\ ev.who = t => ev.popped \subseteq {1} /\ ev.released \subseteq {1}

\* A second acquire has returned the idle connection the first round trip
\* released.
C10_Witness ==
    \E t \in Threads :
        /\ Solo(t) /\ ~discarded
        /\ ev.who = t /\ ev.popped = {1} /\ conn[t] = 1
        /\ allocated = 1 /\ pool = <<>>

\* C11: PooledConnectionMediator.cursor() on a Pool, its cursor request
\* having failed k times with a stale-connection-class error,
\* 1 <= k <= get_max_reattempts() - 1, and the next attempt succeeding:
\* cursor() returns a working cursor of the connection the mediator then
\* holds, and Pool.discard() was called exactly k times in that call.
C11_StaleCursorRecovery ==
    (/\ ev.cursor.state = "working"
     /\ kind[ev.who] = "pooled"
     /\ ev.cursor.failed >= 1
     /\ ev.cursor.failed <= Pool_get_max_reattempts - 1) =>
        /\ ev.cursor.conn # None
        /\ ev.cursor.conn = ev.held
        /\ ev.cursor.discards = ev.cursor.failed

\* cursor() has returned a working cursor after two failed attempts.
C11_Witness ==
    /\ ev.cursor.state = "working"
    /\ kind[ev.who] = "pooled"
    /\ ev.cursor.failed = 2 /\ ev.cursor.discards = 2
    /\ Pool_get_max_reattempts = 3

\* C12: PooledConnectionMediator.cursor(), every attempt of which failed
\* with a stale-connection-class error, re-raises the error: it never
\* returns without a working cursor, whatever the pool and its budget of
\* reattempts, the budget 0 of DummyPool included.
C12_CursorNeverBroken == ev.cursor.state # "broken"

\* C13: a SingleConnectionMediator.  An enter() that finds no connection
\* is at depth 0 and constructs exactly one, which the mediator then holds;
\* an enter() that finds a connection keeps it and constructs nothing; an
\* exit() whose exception type is the driver's OperationalError closes the
\* connection held and clears the handle, so that the next enter() at depth
\* 0 constructs again.
C13_SingleConnectsOnDemand ==
    [][\A t \in Threads :
          kind[t] = "single" =>
              /\ (depth'[t] = depth[t] + 1 /\ conn[t] = None) =>
                     /\ depth[t] = 0
                     /\ conn'[t] # None /\ conn'[t] \notin Refs
                     /\ ev'.constructed = {conn'[t]}
              /\ (depth'[t] = depth[t] + 1 /\ conn[t] # None) =>
                     /\ conn'[t] = conn[t]
                     /\ ev'.constructed = {}
              /\ (/\ depth'[t] < depth[t] /\ conn[t] # None
                  /\ \/ ev'.delivered.kind = "OperationalError"
                     \/ exc'[t].kind = "OperationalError") =>
                     /\ conn'[t] = None
                     /\ conn[t] \in ev'.closed]_vars

\* A single mediator that had cleared its handle on OperationalError has
\* been entered again and has constructed a connection.
C13_Witness ==
    /\ ev.who # "none" /\ ev.who # Fin
    /\ kind[ev.who] = "single" /\ lost
    /\ ev.held = None /\ conn[ev.who] # None
    /\ ev.constructed = {conn[ev.who]}
    /\ depth[ev.who] = 1

\* The Pool's idle set.
Idle == {pool[i] : i \in 1..Len(pool)}

\* Threads whose Context comes from the Pool.
Pooled == {t \in Threads : kind[t] = "pooled"}

\* C14: threads each with its own Context from the same Pool: a connection
\* is held by at most one PooledConnectionMediator; a connection a mediator
\* holds is not in the idle set; and a connection on which a caller holds an
\* open cursor (the cursor of a row factory, from Context.execute) is not in
\* the idle set.
C14_ExclusiveOwnership ==
    /\ \A t, u \in Pooled :
           (t # u /\ conn[t] # None) => conn[t] # conn[u]
    /\ \A t \in Pooled : conn[t] # None => conn[t] \notin Idle
    /\ \A t \in Pooled : factory[t] # None => factory[t] \notin Idle

\* Two pooled mediators hold a connection each, one of them for the open
\* cursor of a row factory only, while another connection could be idle.
C14_Witness ==
    \E t, u \in Pooled :
        /\ t # u
        /\ conn[t] # None /\ conn[u] # None
        /\ factory[t] = conn[t] /\ frames[t] = <<>> /\ ctx_depth[t] = 0
        /\ depth[t] = 1

\* The Contexts whose `with` thread t has open, innermost last.
IsContextScope(f) == f \in Threads

OpenContexts(t) == SelectSeq(frames[t], IsContextScope)

\* C15: the context stack is LIFO and re-entrant: the stack a thread sees
\* is the sequence of the Context scopes it has open (a Context entered
\* twice is on it twice), so its length is their number and current()
\* returns the innermost; on an empty stack current() raises NoContextError
\* and current(with_exception=False) returns None.
C15_StackIsLifo ==
    \A t \in Threads :
        LET sc == OpenContexts(t)
        IN  /\ stack[StackOf(t)] = sc
            /\ Len(stack[StackOf(t)]) = Len(sc)
            /\ Context_current(t, FALSE) =
                   (IF sc = <<>> THEN NoCtx ELSE sc[Len(sc)])
            /\ Context_current(t, TRUE) =
                   (IF sc = <<>> THEN "NoContextError" ELSE sc[Len(sc)])

\* One thread is inside the scope of its Context while the other thread
\* has entered that same Context twice, nested.
C15_Witness ==
    \E t \in Threads :
        /\ frames[t] = <<t>> /\ stack[StackOf(t)] = <<t>>
        /\ Context_current(t, TRUE) = t
        /\ \E u \in Threads \ {t} :
               /\ OpenContexts(u) = <<t, t>>
               /\ Context_current(u, TRUE) = t

\* C16: context stacks are per thread: a step in which thread t neither
\* enters nor leaves a scope leaves the length and the top of the stack t
\* sees unchanged, whatever another thread pushes or pops; and current() in
\* t returns only a Context t has entered.
C16_StacksAreThreadLocal ==
    /\ [](\A t \in Threads :
              Context_current(t, FALSE) # NoCtx =>
                  \E i \in 1..Len(OpenContexts(t)) :
                      OpenContexts(t)[i] = Context_current(t, FALSE))
    /\ [][\A t \in Threads :
              frames'[t] = frames[t] =>
                  /\ Len(stack'[StackOf(t)]) = Len(stack[StackOf(t)])
                  /\ ContextStack_top(stack'[StackOf(t)]) =
                         ContextStack_top(stack[StackOf(t)])]_vars

\* Both threads are inside Context scopes, each seeing its own stack: the
\* one two deep with one Context on top, the other with the other Context.
C16_Witness ==
    /\ stack[StackOf("t1")] = <<"t2", "t1">>
    /\ stack[StackOf("t2")] = <<"t2">>
    /\ Context_current("t1", TRUE) = "t1"
    /\ Context_current("t2", TRUE) = "t2"

\* A step that makes a Context or enters or leaves a Context scope.
ContextStep ==
    \/ \E t \in Threads : cfield'[t].made # cfield[t].made
    \/ stack' # stack

\* C17: Pool.connect() and entering or leaving the Context it returns
\* acquire no connection: such a step leaves allocated, the idle set and
\* every mediator's handle unchanged, and they are 0, empty and None on a
\* fresh pool as long as no transaction or statement was started.
C17_ConnectIsLazy ==
    /\ [](ops = 0 =>
              /\ allocated = 0 /\ pool = <<>>
              /\ \A t \in Threads : conn[t] = None)
    /\ [][ContextStep =>
              /\ allocated' = allocated /\ pool' = pool
              /\ conn' = conn]_vars

\* A Context from the Pool was made and entered twice, nothing started on
\* it: the pool is as it was made.
C17_Witness ==
    \E t \in Threads :
        /\ kind[t] = "pooled" /\ cfield[t].made
        /\ stack[StackOf(t)] = <<t, t>>
        /\ ops = 0 /\ allocated = 0 /\ pool = <<>> /\ conn[t] = None

\* C19: Context.close() closes the mediator (a SingleConnectionMediator
\* closes its connection and clears its handle) and, whether it returns or
\* raises, leaves the Context's mediator reference and its error-kind
\* references None; the context stack is not changed by it.
C19_CloseClearsContext ==
    [][ev'.closing =>
           /\ ~cfield'[ev'.who].mdr /\ ~cfield'[ev'.who].errs
           /\ stack' = stack
           /\ (kind[ev'.who] = "single" /\ cfield[ev'.who].mdr) =>
                  /\ conn'[ev'.who] = None
                  /\ conn[ev'.who] # None => conn[ev'.who] \in ev'.closed]_vars

\* Inside its own `with` scope a Context with a SingleConnectionMediator
\* was closed while its mediator held a connection.
C19_Witness ==
    /\ ev.closing /\ ev.who # "none"
    /\ kind[ev.who] = "single"
    /\ stack[StackOf(ev.who)] # <<>>
    /\ ev.held # None /\ ev.held \in ev.closed /\ conn[ev.who] = None
    /\ ~cfield[ev.who].mdr /\ ~cfield[ev.who].errs

\* Closing a Context a second time raised, the references still None.
C19_ClosedTwice ==
    /\ ev.closing /\ ev.who # "none"
    /\ exc[ev.who].kind = "AttributeError"
    /\ ~cfield[ev.who].mdr /\ ~cfield[ev.who].errs

\* The calls of kind c in a session log.
Calls(se, c) == Cardinality({i \in 1..Len(se) : se[i] = c})

\* C18: a statement issued through the free functions outside any explicit
\* transaction produces on the connection, in this order, the cursor
\* creation, the statement, exactly one commit and then the cursor close
\* (at once from execute and execute_proc; from the query functions when
\* the row factory holding the cursor is closed, which is the next thing
\* its connection sees of that cursor); and statements in a row on a
\* SingleConnectionMediator reuse the connection it holds.
C18_StatementSession ==
    [][\A t \in Threads :
          LET se == ev'.session
          IN  /\ (ev'.who = t /\ Calls(se, "stmt") > 0 /\ ctx_depth[t] = 0) =>
                     /\ Calls(se, "commit") = 1 /\ Calls(se, "rollback") = 0
                     /\ \/ se = <<"cursor", "stmt", "commit", "cursor-close">>
                        \/ /\ se = <<"cursor", "stmt", "commit">>
                           /\ factory[t] = None /\ factory'[t] # None
                           /\ factory'[t] = conn'[t]
              /\ (factory[t] # None /\ factory'[t] = None) =>
                     ev'.who = t /\ se = <<"cursor-close">>
              /\ (kind[t] = "single" /\ conn[t] # None /\ pc[t] = "run"
                    /\ pc'[t] = "cursor") =>
                     conn'[t] = conn[t] /\ ev'.constructed = {}
              /\ (kind[t] = "single" /\ ev'.who = t
                    /\ Calls(se, "stmt") > 0) =>
                     conn'[t] = conn[t] /\ ev'.constructed = {}]_vars

\* The third operation in a row on a SingleConnectionMediator that never
\* lost a connection is a statement outside any transaction: its session
\* is complete and its connection still held.
C18_Witness ==
    /\ ev.who # "none" /\ ev.who # Fin
    /\ kind[ev.who] = "single" /\ ~lost /\ ops = MaxOps
    /\ \A u \in Threads \ {ev.who} : depth[u] = 0 /\ pc[u] = "run"
    /\ allocated = 0
    /\ ev.session = <<"cursor", "stmt", "commit", "cursor-close">>
    /\ ev.cursor.failed = 0
    /\ ctx_depth[ev.who] = 0 /\ frames[ev.who] = <<>>
    /\ conn[ev.who] # None /\ conn[ev.who] = ev.held

\* The exception a step leaves propagating in thread t, or delivers to t's
\* caller.
AfterStep(d, x) == IF d # NoExc THEN d ELSE x

\* C20: a statement error (ProgrammingError) raised while a statement
\* executes is propagated unchanged, in the step that raised it and through
\* every enclosing scope, with no retry, no reconnect and no discard: a
\* SingleConnectionMediator keeps its connection, and a
\* PooledConnectionMediator keeps it while still entered and else returns
\* it to the idle set, allocated unchanged.
C20_StatementErrorKeepsConnection ==
    [][\A t \in Threads :
          LET x == AfterStep(ev'.delivered, exc'[t])
              raisedNow == /\ pc[t] \in {"cursor", "reattempt"}
                           /\ ev'.cursor.state = "working"
                           /\ x.raised = "ProgrammingError"
              passing == exc[t].raised = "ProgrammingError" /\ exc'[t] # exc[t]
          IN  (ev'.who = t /\ (raisedNow \/ passing)) =>
                  /\ x.kind = "ProgrammingError"
                  /\ pc'[t] = "run"
                  /\ ev'.discards = 0 /\ discarded' = discarded
                  /\ ev'.constructed = {} /\ allocated' = allocated
                  /\ kind[t] = "single" =>
                         conn'[t] = conn[t] /\ conn[t] # None /\ ev'.closed = {}
                  /\ kind[t] = "pooled" =>
                         IF depth'[t] > 0 THEN conn'[t] = conn[t]
                         ELSE /\ conn'[t] = None
                              /\ ev'.released = {conn[t]}
                              /\ \E i \in 1..Len(pool') : pool'[i] = conn[t]]_vars

\* A statement of a thread on the Pool, outside any transaction, failed
\* with ProgrammingError: rolled back, delivered, the connection idle.
C20_Witness ==
    /\ ev.who # "none" /\ ev.who # Fin
    /\ kind[ev.who] = "pooled"
    /\ ev.delivered = [kind |-> "ProgrammingError", raised |-> "ProgrammingError"]
    /\ ev.cursor.state = "working"
    /\ ev.session = <<"cursor", "cursor-close", "rollback">>
    /\ ev.released = {ev.held} /\ ev.held \in Idle
    /\ conn[ev.who] = None /\ allocated >= 1 /\ ~discarded

\* The same on a SingleConnectionMediator, which still holds the connection.
C20_SingleKeeps ==
    /\ ev.who # "none" /\ ev.who # Fin
    /\ kind[ev.who] = "single"
    /\ ev.delivered = [kind |-> "ProgrammingError", raised |-> "ProgrammingError"]
    /\ ev.session = <<"cursor", "cursor-close", "rollback">>
    /\ conn[ev.who] = ev.held /\ ev.held # None

\* A Pool was constructed: its threads run.
PoolExists ==
    \E t \in Threads : pc[t] \notin {"new", "failed"} /\ kind[t] = "pooled"

\* C21: pool misconfiguration is rejected at construction, by create_pool()
\* and by the pool classes alike: a Pool is only ever made on a driver of
\* threadsafety 2 or more and with max_conns >= 1, a DummyPool only on a
\* driver of threadsafety 1 or more, so that no Pool exists whose acquire()
\* can never succeed.
C21_MisconfigurationRejected ==
    /\ ev.made.result = "Pool" =>
           ev.made.threadsafety >= 2 /\ ev.made.max_conns >= 1
    /\ ev.made.result = "DummyPool" => ev.made.threadsafety >= 1
    /\ PoolExists => max_conns >= 1

\* On a Pool made with max_conns = 0 a thread is in acquire(), waiting on the
\* condition with nothing allocated: nobody will ever notify it.
C21_AcquireStuck ==
    /\ PoolExists /\ max_conns = 0 /\ allocated = 0
    /\ \E t \in Threads : t \in waiters /\ pc[t] = "acquire"

\* C22: a Context's transaction depth is never negative and equals the
\* number of transaction() scopes open on it, 0 when none is: every exit
\* of a scope, normal or by any exception, restores the depth from before
\* the scope was entered.
C22_DepthCountsScopes ==
    \A t \in Threads :
        ctx_depth[t] >= 0 /\ ctx_depth[t] = Calls(frames[t], "txn")

\* In this step the mediator of thread t calls Pool.acquire().
AcquireCalled(t) == pc[t] # "acquire" /\ pc'[t] = "acquire"

\* What C23 says besides where acquire() is called, of a step and the
\* PooledConnectionMediator of t: release() only by the exit that brings the
\* depth back to 0, and of the connection held; an entry at depth > 0
\* keeps the handle and takes nothing from the pool; the depth stays >= 0.
C23_Nesting(t) ==
    /\ (ev'.who = t /\ ev'.released # {}) =>
           depth[t] = 1 /\ depth'[t] = 0 /\ ev'.released = {conn[t]}
    /\ (depth[t] > 0 /\ depth'[t] > depth[t]) =>
           /\ conn'[t] = conn[t]
           /\ ev'.popped = {} /\ ev'.constructed = {}
           /\ allocated' = allocated /\ pool' = pool
    /\ depth[t] >= 0 /\ depth'[t] >= 0

\* C23 as stated: a PooledConnectionMediator calls Pool.acquire() only when
\* it is entered at depth 0, and Pool.release() only when an exit brings
\* its depth back to 0; nested scopes reuse the held connection; its depth
\* is never negative.
C23_AcquireOnlyOnEntry ==
    [][\A t \in Pooled :
          /\ AcquireCalled(t) => depth[t] = 0
          /\ C23_Nesting(t)]_vars

\* C23, amended: Pool.acquire() is called when the mediator is entered at
\* depth 0, and else only by the retry loop of its cursor(), after a failed
\* attempt and right after the Pool.discard() of the same round, so that
\* the connection acquired replaces the one held; the rest as stated.
C23_AcquireOnEntryOrRetry ==
    [][\A t \in Pooled :
          /\ AcquireCalled(t) =>
                 \/ depth[t] = 0
                 \/ /\ pc[t] \in {"cursor", "reattempt"}
                    /\ ev'.who = t /\ ev'.discards = 1
                    /\ allocated' = allocated - 1
                    /\ cont'[t] = "retry"
          /\ C23_Nesting(t)]_vars

\* Inside a scope, the retry loop of cursor() has discarded and called
\* acquire().
C23_Witness ==
    \E t \in Pooled :
        /\ pc[t] = "acquire" /\ cont[t] = "retry" /\ depth[t] >= 1
        /\ ev.who = t /\ ev.discards = 1

Min(a, b) == IF a < b THEN a ELSE b

\* C24 as stated: Pool.get_max_reattempts() returns
\* min(allocated + 1, max_conns), and the retry budget handed to the
\* mediator never exceeds max_conns.
C24_BudgetIsCapped ==
    /\ Pool_get_max_reattempts = Min(allocated + 1, max_conns)
    /\ \A t \in Pooled : attempts_left[t] <= max_conns

\* C24, amended: Pool.get_max_reattempts() returns max_conns + 1 whatever
\* is allocated: that is the budget the mediator's cursor() reads at its
\* first failed attempt, one more than max_conns, and what it has left
\* never exceeds it.
C24_BudgetIsMaxConnsPlusOne ==
    /\ [](\A t \in Pooled : attempts_left[t] <= max_conns + 1)
    /\ [][\A t \in Pooled :
              (pc[t] = "cursor" /\ pc'[t] = "acquire") =>
                  attempts_left'[t] = max_conns + 1]_vars

\* The cursor() of a mediator on a Pool of max_conns = 2 has read its
\* budget with one connection allocated: 3, more than max_conns and more
\* than allocated + 1.
C24_Witness ==
    \E t \in Pooled :
        /\ pc[t] = "acquire" /\ cont[t] = "retry"
        /\ max_conns = MaxConnsBound /\ allocated = 0 /\ ev.discards = 1
        /\ attempts_left[t] = 3

\* C25: the retry budget is sufficient.  With every allocated connection
\* stale, newly constructed ones healthy and nobody else at the pool, the
\* cursor() of a PooledConnectionMediator never raises or returns without
\* a working cursor; the connection its loop ends up with is one it
\* constructed, after every stale connection was discarded (the pool is
\* then empty and the new connection the only one allocated), a discard
\* for each failed attempt.
C25_BudgetSuffices ==
    /\ ev.cursor.state \notin {"raised", "broken"}
    /\ \A t \in Threads :
           pc[t] = "reattempt" =>
               IF conn[t] \in stale THEN ev.popped = {conn[t]}
               ELSE /\ ev.constructed = {conn[t]}
                    /\ pool = <<>> /\ allocated = 1 /\ stale = {}
                    /\ tries[t].discards = tries[t].failed
    /\ ev.cursor.state = "working" =>
           ev.cursor.discards = ev.cursor.failed /\ stale = {}

\* On a Pool of max_conns = 2 with both connections stale, the statement
\* has run on a working cursor after two failed attempts and two discards.
C25_Witness ==
    /\ ev.cursor.state = "working"
    /\ max_conns = MaxConnsBound
    /\ ev.cursor.failed = MaxConnsBound /\ ev.cursor.discards = MaxConnsBound
    /\ ev.session = <<"cursor", "stmt", "commit", "cursor-close">>
    /\ allocated = 1 /\ stale = {}

\* The cursor() of t's PooledConnectionMediator is in its retry loop: in
\* the acquire() of a round, or at the attempt on what it returned.
InLoop(t) ==
    /\ kind[t] = "pooled"
    /\ pc[t] = "reattempt" \/ (pc[t] = "acquire" /\ cont[t] = "retry")

\* C26: the retry loop of PooledConnectionMediator.cursor() is bounded by
\* the budget read at the first failure: in round n of the loop n discards
\* were made and budget - n + 1 attempts are left, at least 1, so there are
\* at most get_max_reattempts() discard-and-reacquire cycles; cursor()
\* ends, returning or raising, with no more discards than that.
C26_RetryLoopIsBounded ==
    /\ \A t \in Threads :
           InLoop(t) =>
               /\ attempts_left[t] >= 1
               /\ tries[t].discards >= 1
               /\ tries[t].discards + attempts_left[t] =
                      Pool_get_max_reattempts + 1
               /\ tries[t].discards <= Pool_get_max_reattempts
    /\ (ev.who \in Threads /\ ev.cursor.state # "none") =>
           /\ ev.cursor.discards <= Pool_get_max_reattempts
           /\ ev.cursor.failed <= Pool_get_max_reattempts + 1

\* The budget was used up: the last attempt the loop allows has failed and
\* cursor() has raised, after get_max_reattempts() cycles.
C26_Witness ==
    /\ ev.who \in Pooled /\ ev.cursor.state = "raised"
    /\ ev.cursor.discards = Pool_get_max_reattempts
    /\ ev.cursor.failed = Pool_get_max_reattempts + 1
    /\ pc[ev.who] = "run"

\* C27: SingleConnectionMediator.cursor(), when `self.conn.cursor()` fails
\* with InterfaceError or DatabaseError, constructs exactly one new
\* connection, makes it the mediator's connection and tries once more; a
\* failure of that second attempt, of the reconnect or of the ping is raised
\* to the caller with nothing constructed after it; a cursor() call
\* reconnects at most once.
SingleInCursor(t) == kind[t] = "single" /\ pc[t] = "cursor"

C27_ReconnectOnce ==
    /\ [](\A t \in Threads : kind[t] = "single" => tries[t].failed <= 1)
    /\ [][\A t \in Threads :
              (SingleInCursor(t) /\ ev'.who = t) =>
                  /\ ev'.constructed # {} =>
                         /\ tries[t].failed = 0 /\ tries'[t].failed = 1
                         /\ Cardinality(ev'.constructed) = 1
                         /\ conn'[t] \in ev'.constructed
                         /\ conn'[t] # conn[t]
                         /\ pc'[t] = "cursor" /\ exc'[t] = NoExc
                  /\ ev'.cursor.state = "raised" =>
                         /\ ev'.constructed = {}
                         /\ ev'.cursor.failed \in 1..2
                         /\ pc'[t] = "run"
                         /\ exc'[t].raised # NoErr
                         /\ tries'[t] = NoTries]_vars

\* The mediator has just reconnected and is about to try the new connection.
C27_Witness ==
    \E t \in Threads :
        /\ SingleInCursor(t) /\ ev.who = t
        /\ tries[t].failed = 1
        /\ ev.constructed = {conn[t]} /\ ev.held # conn[t] /\ ev.held # None

\* The attempt on the new connection failed, and the reconnect itself failed.
C27_RetryFailed ==
    \E t \in Threads :
        /\ kind[t] = "single" /\ ev.who = t
        /\ ev.cursor.state = "raised" /\ ev.cursor.failed = 2

C27_ReconnectFailed ==
    \E t \in Threads :
        /\ kind[t] = "single" /\ ev.who = t
        /\ ev.cursor.state = "raised" /\ ev.cursor.failed = 1
        /\ conn[t] = None /\ ev.held # None

\* A step in which the statement executed on a working cursor raised, and one
\* in which it succeeded.
StmtRaised ==
    /\ ev.who \in Threads /\ ev.cursor.state = "working"
    /\ Calls(ev.session, "cursor") = 1 /\ Calls(ev.session, "stmt") = 0

StmtDone ==
    /\ ev.who \in Threads /\ ev.cursor.state = "working"
    /\ Calls(ev.session, "stmt") = 1

\* The cursor was closed right after the failed use: before any rollback,
\* within the step that raises to the caller.
ClosedFirst(se) ==
    /\ Len(se) >= 2 /\ se[1] = "cursor" /\ se[2] = "cursor-close"
    /\ Calls(se, "cursor-close") = 1
    /\ \A i \in 1..Len(se) : se[i] = "rollback" => i > 2

\* Context.execute returned the cursor open: nothing closed it before the
\* transaction() scope was left, and only its receiver closes it (dbkit.execute
\* as its last call) or keeps it (the row factory of dbkit.query).
HandedOpen(se) ==
    /\ se[1] = "cursor" /\ se[2] = "stmt"
    /\ \/ /\ Calls(se, "cursor-close") = 0
          /\ factory[ev.who] # None
       \/ /\ Calls(se, "cursor-close") = 1
          /\ se[Len(se)] = "cursor-close"

\* C28: when the statement executed on a cursor from Context.cursor() raises
\* any exception, the cursor is closed before a rollback is issued and
\* before the exception reaches the caller; when it succeeds the cursor is
\* handed to the caller open.
C28_CursorClosedOnAnyException ==
    /\ StmtRaised =>
           /\ ClosedFirst(ev.session)
           /\ AfterStep(ev.delivered, exc[ev.who]).raised # NoErr
    /\ StmtDone /\ AfterStep(ev.delivered, exc[ev.who]) = NoExc =>
           HandedOpen(ev.session)

\* The statement raised an Exception at the top of a transaction: the cursor
\* was closed, then the rollback issued.
C28_ClosedThenRolledBack ==
    /\ StmtRaised
    /\ ev.session = <<"cursor", "cursor-close", "rollback">>

\* The statement was interrupted: the exception propagates, the cursor was
\* not closed.
C28_InterruptedOpen ==
    /\ StmtRaised
    /\ AfterStep(ev.delivered, exc[ev.who]).raised = "KeyboardInterrupt"
    /\ Calls(ev.session, "cursor-close") = 0

\* A step that called the mediator's cursor() while the mediator held no
\* connection.
CursorAskedUnheld ==
    ev.who \in Threads /\ ev.cursor.state # "none" /\ ev.held = None

\* C29: Context.execute() or Context.execute_proc() on a Context whose
\* mediator is at depth 0 and holds no connection enters the mediator first:
\* it gets a connection through the mediator and returns an open cursor,
\* raising nothing.
C29_DirectExecuteConnects ==
    CursorAskedUnheld =>
        /\ ev.cursor.state = "working" /\ ev.cursor.conn # None
        /\ ev.constructed \cup ev.popped # {}
        /\ AfterStep(ev.delivered, exc[ev.who]) = NoExc

\* The direct call failed for lack of a connection, the mediator untouched.
C29_DirectExecuteFails ==
    /\ CursorAskedUnheld
    /\ ev.delivered.raised = "AttributeError"
    /\ depth[ev.who] = 0 /\ conn[ev.who] = None
    /\ ev.constructed = {} /\ ev.popped = {}

\* The threads whose mediator is on a DummyPool.
OnDummyPool == {t \in Threads : kind[t] = "dummy"}

\* C30: a DummyPool never reuses a connection: each acquire() (its mediator
\* entered at depth 0) constructs one connection that nothing referred to
\* before and takes none from an idle list; each release() (the mediator
\* left to depth 0 without a lost connection) closes the connection and
\* keeps it nowhere; a connection it handed out is held by that mediator
\* only; and its reattempt budget is 0, so cursor() never discards and
\* reacquires.
C30_DummyPoolNeverReuses ==
    /\ [](/\ DummyPool_get_max_reattempts = 0
          /\ \A t \in OnDummyPool :
                 /\ attempts_left[t] = 0 /\ tries[t].discards = 0
                 /\ conn[t] # None =>
                        /\ \A u \in Threads \ {t} : conn[u] # conn[t]
                        /\ \A i \in 1..Len(pool) : pool[i] # conn[t])
    /\ [][\A t \in OnDummyPool :
              /\ (depth[t] = 0 /\ depth'[t] > 0) =>
                     /\ ev'.who = t
                     /\ ev'.constructed = {conn'[t]} /\ conn'[t] # None
                     /\ conn'[t] \notin Refs
                     /\ ev'.popped = {}
              /\ (depth[t] > 0 /\ depth'[t] = 0 /\ conn[t] # None
                    /\ ev'.discards = 0) =>
                     /\ ev'.who = t
                     /\ conn[t] \in ev'.closed /\ ev'.released = {}
                     /\ conn'[t] = None
                     /\ conn[t] \notin Refs'
              /\ ev'.who = t =>
                     /\ pool' = pool /\ allocated' = allocated
                     /\ ev'.popped = {}]_vars

\* A DummyPool's mediator, not in its first operation, has acquired: it
\* holds a connection constructed in this step.
C30_Witness ==
    \E t \in OnDummyPool :
        /\ ev.who = t /\ ops >= 2
        /\ depth[t] = 1 /\ conn[t] # None
        /\ ev.constructed = {conn[t]} /\ ev.held = None
        /\ ~discarded

\* The mediator on a DummyPool left its outermost scope: release() closed
\* the connection.
C30_Released ==
    \E t \in OnDummyPool :
        /\ ev.who = t /\ ev.held # None /\ ev.held \in ev.closed
        /\ depth[t] = 0 /\ conn[t] = None /\ ev.discards = 0

\* The pooled mediators that have a connection checked out: they hold one,
\* and are not between the discard() and the acquire() of a retry round
\* (where `self.conn` still names the connection just discarded).
CheckedOut ==
    {t \in Threads : /\ kind[t] = "pooled" /\ conn[t] # None
                     /\ ~(pc[t] = "acquire" /\ cont[t] = "retry")}

\* C31: the Pool's accounting is exact in every reachable state: allocated
\* is the number of idle connections plus the number checked out by
\* mediators, so it is never negative and never above max_conns; also after
\* acquire() raised in the retry loop of cursor(), discard() already called.
C31_AccountingExact ==
    /\ allocated = Len(pool) + Cardinality(CheckedOut)
    /\ allocated >= 0
    /\ allocated <= max_conns

\* acquire() raised in the retry loop and the mediator's exit discarded a
\* second time: allocated is negative.
C31_NegativeAllocated ==
    /\ allocated < 0
    /\ ev.who \in Pooled /\ ev.discards > 0 /\ conn[ev.who] = None

\* A scope of thread ev.who was just left, its mediator holding a
\* connection, by an exception for which transaction() skips the rollback:
\* one that `except self.mdr.OperationalError:` catches, the driver's
\* OperationalError or a subclass of it.
LeftRollbackSkipped ==
    /\ ev.who \in Threads
    /\ ev.exits > 0
    /\ ev.held # None
    /\ IsInstance(AfterStep(ev.delivered, exc[ev.who]).kind,
                  "OperationalError")

\* C32: the Context and its mediator agree on which exceptions mean that the
\* connection is lost: whenever transaction() skips the rollback for the
\* exception leaving a scope, the mediator's exit for that exception drops
\* the connection (closes or discards it, conn None) and neither keeps it
\* nor releases it to the idle set.
C32_AgreeOnConnLoss ==
    LeftRollbackSkipped =>
        /\ conn[ev.who] = None
        /\ ev.released = {}
        /\ \A i \in 1..Len(pool) : pool[i] # ev.held

\* A subclass of OperationalError left the outermost scope of a pooled
\* mediator: no rollback was made and the connection is idle in the pool.
C32_SubclassReleased ==
    /\ LeftRollbackSkipped
    /\ ev.delivered.kind = "OperationalSub"
    /\ ev.scope.rollbacks = 0 /\ ev.scope.commits = 0
    /\ ev.held \in ev.released
    /\ \E i \in 1..Len(pool) : pool[i] = ev.held

\* The same with a SingleConnectionMediator: it keeps the connection.
C32_SubclassKept ==
    /\ LeftRollbackSkipped
    /\ kind[ev.who] = "single"
    /\ ev.delivered.kind = "OperationalSub"
    /\ ev.scope.rollbacks = 0
    /\ conn[ev.who] = ev.held

\* C33: within one outermost transaction() scope the mediator's connection
\* is never replaced by another once a statement of the scope has run on it,
\* also when a cursor request in the scope finds the connection dropped: no
\* scope ends with a commit that reports success while statements of the
\* scope were executed on a different connection.
C33_OneConnectionPerTransaction ==
    /\ \A t \in Threads : open[t].work # "moved"
    /\ ev.scope.work # "moved"

\* The outermost scope ended normally with its one commit, on a connection
\* other than the one an earlier statement of the scope was executed on.
C33_CommittedElsewhere ==
    /\ ev.who \in Threads
    /\ ev.scope.result = "ok" /\ ev.scope.commits = 1
    /\ ev.scope.work = "moved"
    /\ ev.delivered = NoExc

\* Thread t is blocked in Pool.acquire() although the pool could serve it,
\* and nothing is left that would notify the condition: every other worker
\* has finished holding nothing, and the thread in finalise() has returned
\* or waits itself.  No discard() was made (discard() never notifies).
LeftBlocked(t) ==
    /\ t \in waiters /\ pc[t] = "acquire"
    /\ pool # <<>> \/ allocated < max_conns
    /\ \A u \in Threads \ {t} : pc[u] = "finished" /\ conn[u] = None
    /\ pc[Fin] = "done" \/ Fin \in waiters
    /\ ~discarded

\* C34: no lost wake-up: with acquirers blocked in acquire() and a thread
\* blocked in finalise() waiting on the pool's one condition, the single
\* notify() of each release() never leaves a thread blocked in acquire()
\* for ever while the pool has an idle connection or allocated < max_conns.
C34_NoLostWakeup ==
    \A t \in Threads : ~LeftBlocked(t)

\* The notify() of the release woke the thread in finalise(), which closed
\* the idle connection and returned: the acquirer stays blocked on an empty
\* pool that may construct.
C34_WokenFinaliseOnly ==
    \E t \in Threads :
        /\ LeftBlocked(t)
        /\ pc[Fin] = "done" /\ pool = <<>> /\ allocated = 0

\* C35: whenever a PooledConnectionMediator returns a connection to the
\* idle set, the work executed in the transaction() scope that ends with
\* that release has been decided by a commit() or a rollback() made before
\* the release: no connection with an undecided transaction becomes
\* available to another mediator.
C35_ReleasedAfterDecision ==
    (/\ ev.who \in Pooled
     /\ ev.released # {}
     /\ ev.scope.work # "none") =>
        ev.scope.commits + ev.scope.rollbacks >= 1

\* A statement was executed in the scope, a subclass of OperationalError
\* left it: neither commit nor rollback was made and the connection is idle
\* in the pool.
C35_ReleasedUndecided ==
    /\ ev.who \in Pooled
    /\ ev.released = {ev.held} /\ ev.held # None
    /\ ev.scope.work = "done"
    /\ ev.scope.commits = 0 /\ ev.scope.rollbacks = 0
    /\ ev.scope.result = "OperationalSub"
    /\ \E i \in 1..Len(pool) : pool[i] = ev.held

\* C36: a connection on which a cursor request failed with InterfaceError or
\* DatabaseError is never placed in the Pool's idle set: when cursor() has
\* used up its attempts and raises, the last connection tried is discarded,
\* not released for a later acquire().
C36_StaleNeverIdle ==
    /\ \A i \in 1..Len(pool) : pool[i] \notin stale
    /\ ev.who \in Pooled => ev.released \cap stale = {}

\* cursor() raised InterfaceError after its last attempt; the error left
\* the `with ctx.mdr:` of the statement, and the mediator released the
\* connection of that attempt: it is idle in the pool.
C36_StaleReleased ==
    /\ ev.who \in Pooled
    /\ ev.delivered.raised = "InterfaceError"
    /\ ev.held # None /\ ev.released = {ev.held}
    /\ ev.held \in stale
    /\ ev.discards = 0
    /\ \E i \in 1..Len(pool) : pool[i] = ev.held

\* C37: Context.transaction() invokes the mediator's commit() or rollback()
\* only while the mediator holds a connection: an outermost scope that ends
\* while the mediator's conn is None has been left by an OperationalError
\* (for which neither is invoked), whatever its inner scopes did, an
\* OperationalError caught inside the still open outer scope included.
C37_DecidesOnAConnection ==
    (/\ ev.who \in Threads
     /\ ev.scope.result # NoErr
     /\ ev.held = None) =>
        IsInstance(ev.scope.result, "OperationalError")

\* An inner scope lost the connection, the caller caught the
\* OperationalError, and the outer scope's body ended normally: commit() was
\* invoked on None and the caller gets AttributeError.
C37_CommitWithoutConnection ==
    /\ ev.who \in Threads
    /\ ev.held = None
    /\ ev.scope.result = "AttributeError" /\ ~ev.scope.raise
    /\ ev.scope.shape = "failed"
    /\ ev.scope.commits = 0 /\ ev.scope.rollbacks = 0
    /\ ev.delivered.raised = "AttributeError"

\* C38: the assertion of SingleConnectionMediator.__enter__ (conn is None
\* only at depth 0) never fails in Context-level use, also when a statement
\* is executed after an OperationalError of an inner scope or statement was
\* caught inside a still open outer transaction() scope.
C38_AssertionNeverFails ==
    /\ \A t \in Threads : exc[t].raised # "AssertionError"
    /\ ev.delivered.raised # "AssertionError"

\* A SingleConnectionMediator inside an open transaction() scope, its
\* connection closed by an inner scope's OperationalError that the caller
\* caught, was entered again: the assertion failed.
C38_AssertionFailed ==
    \E t \in Threads :
        /\ kind[t] = "single"
        /\ exc[t].raised = "AssertionError"
        /\ conn[t] = None /\ depth[t] > 0 /\ ctx_depth[t] > 0
        /\ lost

\* Thread t's call of Pool.acquire() ends in this step by raising.
AcquireRaises(t) ==
    /\ pc[t] = "acquire" /\ pc'[t] = "run"
    /\ \/ exc'[t].raised = "OperationalError"
       \/ ev'.who = t /\ ev'.delivered.raised = "OperationalError"

\* C39: when the driver's connect fails inside Pool.acquire(), the error
\* propagates with allocated, the idle set and the waiting threads as they
\* were; a PooledConnectionMediator whose __enter__ failed so at depth 0
\* still has depth 0 and conn None, no scope was entered, and the pool is
\* in the state in which the next acquire() constructs: a later enter
\* acquires normally.
C39_FailedAcquireLeavesNoTrace ==
    [][\A t \in Threads :
          AcquireRaises(t) =>
              /\ allocated' = allocated /\ pool' = pool
              /\ waiters' = waiters /\ t \notin waiters'
              /\ CanConstruct(allocated', max_conns)
              /\ cont[t] \in {"txn", "stmt"} =>
                     /\ depth[t] = 0
                     /\ depth'[t] = 0 /\ conn'[t] = None
                     /\ frames'[t] = frames[t]
                     /\ ctx_depth'[t] = ctx_depth[t]
                     /\ cfield'[t].mdr]_vars

\* The __enter__ of a pooled mediator at depth 0 failed in acquire(), the
\* error was delivered to the caller: the mediator is as before and the
\* pool has room.
C39_Witness ==
    /\ ev.who \in Pooled
    /\ ev.delivered.raised = "OperationalError"
    /\ ev.held = None /\ ev.exits = 0 /\ ev.cursor.state = "none"
    /\ pc[ev.who] = "run" /\ depth[ev.who] = 0 /\ conn[ev.who] = None
    /\ frames[ev.who] = <<>>
    /\ allocated < max_conns /\ ops < MaxOps

\* In this step the cursor() of t's SingleConnectionMediator obtains a
\* cursor from its connection at the first attempt and the ping on it
\* raises InterfaceError, the mediator keeping the connection.
PingFails(t) ==
    /\ kind[t] = "single" /\ pc[t] = "cursor" /\ tries[t].failed = 0
    /\ conn[t] # None
    /\ pc'[t] = "run" /\ exc'[t].raised = "InterfaceError"
    /\ conn'[t] = conn[t]

\* C40: a SingleConnectionMediator recovers from a silently dropped
\* connection: once the ping on its connection failed with a
\* stale-connection-class error that is not OperationalError, the mediator
\* replaces the connection in that call or by the next enter()/cursor(), so
\* no later cursor() fails its ping on that same dead connection.
C40_DeadConnectionReplaced ==
    [][\A t \in Threads : conn[t] \in stale => ~PingFails(t)]_vars

\* A SingleConnectionMediator at rest between statements, still holding the
\* connection on which the last statement's ping failed.
C40_DeadConnectionKept ==
    /\ ev.who \in Threads /\ kind[ev.who] = "single"
    /\ ev.delivered.raised = "InterfaceError"
    /\ pc[ev.who] = "run" /\ depth[ev.who] = 0
    /\ conn[ev.who] # None /\ conn[ev.who] \in stale

====
